---- MODULE Spec2Model ----
(***************************************************************************)
(* State-machine model of the classroom attendance / grade services        *)
(* (attendanceService.ts, gradeService.ts, permissionService.ts,           *)
(* authService.ts, studentService.ts) and of the attendance page that      *)
(* guards the attendance writes.                                           *)
(*                                                                         *)
(* Every asynchronous service method is split at its awaits: one action    *)
(* per synchronous section, so that calls in flight interleave exactly     *)
(* where the JavaScript event loop lets them.                              *)
(***************************************************************************)
EXTENDS Integers, Sequences, FiniteSets, TLC

VARIABLES
    attendance,     \* Firestore collection 'attendance': docId -> document data
    calls,          \* attendance-service calls in flight (set of call records)
    now,            \* the clock read by Timestamp.now()
    studentsDB,     \* Firestore collection 'students': account -> group
    permissions,    \* Firestore collection 'permissions': account -> document data
    user,           \* the logged-in AuthUser of the session, or Null
    userPermission, \* AttendancePage state: the permission loaded for the user
    permLoads,      \* loadUserPermission calls in flight (accounts)
    students,       \* AttendancePage state: the roster loaded by loadData
    pageCalls,      \* writes issued by the page handlers and not yet settled
    grades,         \* Firestore collection 'grades': account -> document data
    gcalls,         \* updateGrade calls (in flight or settled)
    upload,         \* the processExcelUpload call, or Null
    sheetRow,       \* a sheet row handed to the validation loop, or Null
    validated,      \* what the loop made of that row, or Null
    client,         \* a caller that repeats one call in sequence, or Null
    permCalls,      \* setPermission calls in flight (set of call records)
    attendanceLookup,    \* AttendancePage state 'attendance': account -> flag
    participationLookup, \* AttendancePage state 'participation': account -> count
    returned        \* the last read-side call and what came back, or Null

storeVars == <<attendance, calls, now>>
pageVars  == <<studentsDB, permissions, user, userPermission, permLoads,
               students, pageCalls>>
gradeVars == <<grades, gcalls, upload>>
sheetVars == <<sheetRow, validated>>
callerVars == <<client>>
permVars == <<permCalls>>
lookupVars == <<attendanceLookup, participationLookup>>
queryVars == <<returned>>
vars == <<storeVars, pageVars, gradeVars, sheetVars, callerVars, permVars,
          lookupVars, queryVars>>

\* what the actions of one component leave alone
notStore == <<pageVars, gradeVars, sheetVars, callerVars, permVars,
              lookupVars, queryVars>>
notLookup == <<storeVars, gradeVars, sheetVars, callerVars, permVars,
               queryVars>>
notPage  == <<notLookup, lookupVars>>
notGrade == <<storeVars, pageVars, sheetVars, callerVars, permVars,
              lookupVars, queryVars>>
notSheet == <<storeVars, pageVars, gradeVars, callerVars, permVars,
              lookupVars, queryVars>>
notPerm  == <<storeVars, gradeVars, sheetVars, callerVars, lookupVars,
              queryVars>>
notQuery == <<storeVars, pageVars, gradeVars, sheetVars, callerVars,
              permVars, lookupVars>>

(***************************************************************************)
(* Bounds of the model.                                                    *)
(***************************************************************************)
MaxCount == 1     \* largest participation count a caller passes
MaxClock == 1     \* latest reading of the clock

Accounts == {"101", "102"}   \* roster accounts (numeric MSSV strings)
Dates    == {"2024-01-01"}
Actors   == {"u1"}
Counts   == 0..MaxCount
CallIds  == {1, 2}          \* attendance-service calls in flight at once

(***************************************************************************)
(* Firestore document operations, as the services use them.                *)
(***************************************************************************)
NoDocs == [d \in {} |-> {}]

\* null / undefined
Null == [d \in {} |-> {}]

\* setDoc(ref, data): create or overwrite the whole document.
SetDoc(store, id, data) ==
    [d \in (DOMAIN store) \cup {id} |-> IF d = id THEN data ELSE store[d]]

\* the field-wise merge done by updateDoc and by setDoc(..., {merge: true})
MergeFields(old, new) ==
    [f \in (DOMAIN old) \cup (DOMAIN new) |->
        IF f \in DOMAIN new THEN new[f] ELSE old[f]]

\* updateDoc(ref, data): only defined on an existing document (else it rejects).
UpdateDoc(store, id, data) == SetDoc(store, id, MergeFields(store[id], data))

\* setDoc(ref, data, {merge: true})
SetDocMerge(store, id, data) ==
    IF id \in DOMAIN store THEN UpdateDoc(store, id, data)
                           ELSE SetDoc(store, id, data)

\* deleteDoc(ref)
DeleteDoc(store, id) == [d \in (DOMAIN store) \ {id} |-> store[d]]

(***************************************************************************)
(* AttendanceService                                                       *)
(***************************************************************************)
\* const docId = `${studentAccount}_${dateString}`
DocId(studentAccount, date) == studentAccount \o "_" \o date

\* getAttendanceRecords({date, studentAccount}): the documents whose FIELDS match.
MatchingRecords(studentAccount, date) ==
    {d \in DOMAIN attendance :
        /\ attendance[d].studentAccount = studentAccount
        /\ attendance[d].date = date}

FreeCallIds == CallIds \ {c.id : c \in calls}
NewCallId == CHOOSE i \in FreeCallIds : \A j \in FreeCallIds : i <= j

NewCall(i, op, studentAccount, date, isPresent, count, by, pc, batch) ==
    [id |-> i, op |-> op, studentAccount |-> studentAccount, date |-> date,
     isPresent |-> isPresent, count |-> count, by |-> by,
     updatedAt |-> now, pc |-> pc, existing |-> FALSE, batch |-> batch]

\* the call settles (resolves: "done", rejects: "failed"); a caller that
\* awaits it (batch # 0) finds the outcome, otherwise the call is forgotten
Settle(c, outcome) ==
    IF c.batch = 0 THEN calls \ {c}
    ELSE (calls \ {c}) \cup {[c EXCEPT !.pc = outcome]}

\* markAttendance, up to the await of getAttendanceRecords: attendanceData
\* (with updatedAt: Timestamp.now()) is built before the existence check.
MarkAttendanceStart(studentAccount, date, isPresent, markedBy) ==
    /\ FreeCallIds # {}
    /\ calls' = calls \cup
         {NewCall(NewCallId, "mark", studentAccount, date, isPresent, 0,
                  markedBy, "read", 0)}
    /\ UNCHANGED <<attendance, now, notStore>>

\* the existence check: getAttendanceRecords answers with the matching
\* records, or with [] when the query fails (it never throws).
MarkAttendanceRead(c, readOk) ==
    /\ c.op = "mark" /\ c.pc = "read"
    /\ calls' = (calls \ {c}) \cup
         {[c EXCEPT !.pc = "write",
                    !.existing = readOk /\ MatchingRecords(c.studentAccount, c.date) # {}]}
    /\ UNCHANGED <<attendance, now, notStore>>

\* the data written by markAttendance
AttendanceData(c) ==
    [studentAccount |-> c.studentAccount, date |-> c.date,
     isPresent |-> c.isPresent, updatedAt |-> c.updatedAt, updatedBy |-> c.by]

\* the document markAttendance creates when it found no record
NewAttendanceDoc(c) ==
    [studentAccount |-> c.studentAccount, date |-> c.date,
     isPresent |-> c.isPresent, updatedAt |-> c.updatedAt, updatedBy |-> c.by,
     createdAt |-> now, participationCount |-> 0]

\* a variant that files a new record under a key of its own (call-specific)
MarkAttendanceWriteOwnKey(c, writeOk) ==
    /\ c.op = "mark" /\ c.pc = "write"
    /\ LET docId == DocId(c.studentAccount, c.date) \o "_" \o c.by IN
       IF writeOk
       THEN /\ attendance' = SetDoc(attendance, docId, NewAttendanceDoc(c))
            /\ calls' = Settle(c, "done")
       ELSE /\ calls' = Settle(c, "failed")
            /\ UNCHANGED attendance
    /\ UNCHANGED <<now, notStore>>

\* the write of markAttendance: updateDoc on an existing record, setDoc of a
\* fresh one otherwise; any rejection is rethrown to the caller.
MarkAttendanceWrite(c, writeOk) ==
    /\ c.op = "mark" /\ c.pc = "write"
    /\ LET docId == DocId(c.studentAccount, c.date) IN
       IF ~writeOk \/ (c.existing /\ docId \notin DOMAIN attendance)
       THEN /\ calls' = Settle(c, "failed")
            /\ UNCHANGED attendance
       ELSE /\ attendance' =
                 IF c.existing
                 THEN UpdateDoc(attendance, docId, AttendanceData(c))
                 ELSE SetDoc(attendance, docId, NewAttendanceDoc(c))
            /\ calls' = Settle(c, "done")
    /\ UNCHANGED <<now, notStore>>

\* updateParticipation, up to the await of setDoc
UpdateParticipationStart(studentAccount, date, participationCount, updatedBy) ==
    /\ FreeCallIds # {}
    /\ calls' = calls \cup
         {NewCall(NewCallId, "participation", studentAccount, date, FALSE,
                  participationCount, updatedBy, "write", 0)}
    /\ UNCHANGED <<attendance, now, notStore>>

\* the merge write of updateParticipation
UpdateParticipationWrite(c, writeOk) ==
    /\ c.op = "participation" /\ c.pc = "write"
    /\ IF writeOk
       THEN /\ attendance' =
                 SetDocMerge(attendance, DocId(c.studentAccount, c.date),
                    [studentAccount |-> c.studentAccount, date |-> c.date,
                     participationCount |-> c.count,
                     updatedAt |-> c.updatedAt, updatedBy |-> c.by])
            /\ calls' = Settle(c, "done")
       ELSE /\ calls' = Settle(c, "failed")
            /\ UNCHANGED attendance
    /\ UNCHANGED <<now, notStore>>

\* batchMarkAttendance: one markAttendance per item, all started at once.
BatchMarkAttendance(item1, item2, markedBy) ==
    /\ Cardinality(FreeCallIds) >= 2
    /\ LET i1 == NewCallId
           i2 == CHOOSE i \in FreeCallIds \ {i1} :
                    \A j \in FreeCallIds \ {i1} : i <= j
       IN calls' = calls \cup
            {NewCall(i1, "mark", item1.studentAccount, item1.date,
                     item1.isPresent, 0, markedBy, "read", i1),
             NewCall(i2, "mark", item2.studentAccount, item2.date,
                     item2.isPresent, 0, markedBy, "read", i1)}
    /\ UNCHANGED <<attendance, now, notStore>>

\* the calls a batch started
BatchOf(b) == {c \in calls : c.batch = b}

\* Promise.all of batchMarkAttendance settles: it resolves when every item
\* has resolved and rejects as soon as one has rejected; the items still
\* running go on with nobody awaiting them
BatchMarkAttendanceSettles(b) ==
    /\ BatchOf(b) # {}
    /\ \/ \A c \in BatchOf(b) : c.pc = "done"
       \/ \E c \in BatchOf(b) : c.pc = "failed"
    /\ calls' = (calls \ BatchOf(b)) \cup
                   {[c EXCEPT !.batch = 0] :
                       c \in {x \in BatchOf(b) : x.pc \notin {"done", "failed"}}}
    /\ UNCHANGED <<attendance, now, notStore>>

\* deleteAttendance
DeleteAttendance(studentAccount, date, writeOk) ==
    /\ attendance' = IF writeOk
                        THEN DeleteDoc(attendance, DocId(studentAccount, date))
                        ELSE attendance
    /\ attendance' # attendance
    /\ UNCHANGED <<calls, now, notStore>>

StoreInit ==
    /\ attendance = NoDocs
    /\ calls = {}
    /\ now = 0

PageInit ==
    /\ studentsDB = [a \in Accounts |-> "A"]
    /\ permissions = NoDocs
    /\ user = Null
    /\ userPermission = Null
    /\ permLoads = {}
    /\ students = {}
    /\ pageCalls = {}

GradeInit ==
    /\ grades = NoDocs
    /\ gcalls = {}
    /\ upload = Null

SheetInit ==
    /\ sheetRow = Null
    /\ validated = Null

CallerInit == client = Null /\ permCalls = {}

LookupInit ==
    /\ attendanceLookup = NoDocs
    /\ participationLookup = NoDocs

QueryInit == returned = Null

Init ==
    /\ StoreInit /\ PageInit /\ GradeInit /\ SheetInit /\ CallerInit
    /\ LookupInit /\ QueryInit

BatchItems == [studentAccount : Accounts, date : Dates, isPresent : BOOLEAN]

StoreNext ==
    \/ \E a \in Accounts, d \in Dates, p \in BOOLEAN, u \in Actors :
          MarkAttendanceStart(a, d, p, u)
    \/ \E c \in calls, ok \in BOOLEAN : MarkAttendanceRead(c, ok)
    \/ \E c \in calls, ok \in BOOLEAN : MarkAttendanceWrite(c, ok)
    \/ \E a \in Accounts, d \in Dates, n \in Counts, u \in Actors :
          UpdateParticipationStart(a, d, n, u)
    \/ \E c \in calls, ok \in BOOLEAN : UpdateParticipationWrite(c, ok)
    \/ \E i1, i2 \in BatchItems, u \in Actors : BatchMarkAttendance(i1, i2, u)
    \/ \E b \in CallIds : BatchMarkAttendanceSettles(b)
    \/ \E a \in Accounts, d \in Dates, ok \in BOOLEAN : DeleteAttendance(a, d, ok)

SpecStore == Init /\ [][StoreNext]_vars

(***************************************************************************)
(* C1: after any interleaving of markAttendance, updateParticipation,      *)
(* batchMarkAttendance and deleteAttendance, the attendance store holds at *)
(* most one record for each (studentAccount, date) pair.                   *)
(***************************************************************************)
C1_OneRecordPerAccountDate ==
    \A i, j \in DOMAIN attendance :
        (/\ attendance[i].studentAccount = attendance[j].studentAccount
         /\ attendance[i].date = attendance[j].date) => i = j

\* both accounts hold a record, one of them written by markAttendance and by
\* updateParticipation alike
C1_Witness ==
    /\ Cardinality(DOMAIN attendance) = Cardinality(Accounts)
    /\ \E d \in DOMAIN attendance :
          /\ "isPresent" \in DOMAIN attendance[d]
          /\ "createdAt" \in DOMAIN attendance[d]
          /\ attendance[d].participationCount = MaxCount


(***************************************************************************)
(* StudentService, PermissionService and the permission utilities          *)
(***************************************************************************)
Groups      == {"A", "B"}
GroupValues == Groups \cup {"nan"}     \* 'nan': a roster row without a group
Roles       == {"student", "group_leader", "teacher"}
Subjects    == {"101"}                 \* the accounts that log in on the page

\* updateStudent(account, {group}): updateDoc of the student's document
UpdateStudent(account, group) ==
    /\ studentsDB[account] # group
    /\ studentsDB' = [studentsDB EXCEPT ![account] = group]
    /\ UNCHANGED <<permissions, user, userPermission, permLoads, students,
                   pageCalls, notPage>>

\* the collection after the write of setPermission(permission), whose
\* getDoc found the document existing (updateDoc) or not (setDoc with
\* createdAt); stamp is the reading of Timestamp.now() after the getDoc
PermissionsAfterWrite(perms, permission, existed, stamp) ==
    LET permissionData == MergeFields(permission, [updatedAt |-> stamp]) IN
    IF existed
    THEN UpdateDoc(perms, permission.studentAccount, permissionData)
    ELSE SetDoc(perms, permission.studentAccount,
                MergeFields(permissionData, [createdAt |-> stamp]))

\* the same for a call that is not interleaved with anything
PermissionsAfterSet(perms, permission, existed) ==
    PermissionsAfterWrite(perms, permission, existed, now)

\* setPermission, its existence check and its write not interleaved with
\* another write of the same document
SetPermission(permission) ==
    /\ permissions' =
         PermissionsAfterSet(permissions, permission,
                             permission.studentAccount \in DOMAIN permissions)
    /\ permissions' # permissions
    /\ UNCHANGED <<studentsDB, user, userPermission, permLoads, students,
                   pageCalls, notPage>>

\* a variant that grants the capabilities of the role and leaves the role
\* label a student's
AttendanceGrantFlagsOnly(mssv, role) ==
    [studentAccount |-> mssv, canMarkAttendance |-> TRUE,
     canEditGrades |-> (role = "teacher"),
     isGroupLeader |-> (role = "group_leader"), role |-> "student"]

\* the permission grantAttendancePermission(mssv, role) passes on
AttendanceGrant(mssv, role) ==
    [studentAccount |-> mssv, canMarkAttendance |-> TRUE,
     canEditGrades |-> (role = "teacher"),
     isGroupLeader |-> (role = "group_leader"), role |-> role]

\* grantAttendancePermission(mssv, role = 'student')
GrantAttendancePermission(mssv, role) ==
    SetPermission(AttendanceGrant(mssv, role))

\* the permission revokeAttendancePermission(mssv) passes on
AttendanceRevocation(mssv) ==
    [studentAccount |-> mssv, canMarkAttendance |-> FALSE,
     canEditGrades |-> FALSE, isGroupLeader |-> FALSE, role |-> "student"]

\* revokeAttendancePermission(mssv)
RevokeAttendancePermission(mssv) ==
    SetPermission(AttendanceRevocation(mssv))

\* defaultPermission of initializeDefaultPermission
DefaultPermission(studentAccount) ==
    [studentAccount |-> studentAccount,
     canMarkAttendance |-> FALSE, canEditGrades |-> FALSE,
     isGroupLeader |-> FALSE, role |-> "student", createdBy |-> "system"]

\* initializeDefaultPermission(studentAccount, createdBy = 'system')
InitializeDefaultPermission(studentAccount) ==
    SetPermission(DefaultPermission(studentAccount))

\* deletePermission(studentAccount)
DeletePermission(studentAccount) ==
    /\ studentAccount \in DOMAIN permissions
    /\ permissions' = DeleteDoc(permissions, studentAccount)
    /\ UNCHANGED <<studentsDB, user, userPermission, permLoads, students,
                   pageCalls, notPage>>

\* getPermission(studentAccount): the document with its id, or null when it
\* does not exist or the read fails
GetPermission(studentAccount, readOk) ==
    IF readOk /\ studentAccount \in DOMAIN permissions
    THEN MergeFields(permissions[studentAccount], [id |-> studentAccount])
    ELSE Null

\* permissionService.canMarkAttendance / canEditGrades
CanMarkAttendance(studentAccount, readOk) ==
    LET permission == GetPermission(studentAccount, readOk) IN
    permission # Null /\ permission.canMarkAttendance

CanEditGrades(studentAccount, readOk) ==
    LET permission == GetPermission(studentAccount, readOk) IN
    permission # Null /\ permission.canEditGrades

(***************************************************************************)
(* AttendancePage                                                          *)
(***************************************************************************)
PageCallIds == {1}      \* handler writes awaiting their outcome at once

\* signInWithAccount(account): the AuthUser it returns, whether or not the
\* account is in the roster
AccountUser(account) ==
    [uid |-> account, role |-> "student", studentAccount |-> account]

\* login through the LoginModal; the [user] effect starts loadUserPermission
Login(account) ==
    /\ user = Null
    /\ user' = AccountUser(account)
    /\ permLoads' = permLoads \cup {account}
    /\ UNCHANGED <<studentsDB, permissions, userPermission, students,
                   pageCalls, notPage>>

\* logout; the [user] effect runs setUserPermission(null)
Logout ==
    /\ user # Null
    /\ user' = Null
    /\ userPermission' = Null
    /\ UNCHANGED <<studentsDB, permissions, permLoads, students, pageCalls,
                   notPage>>

\* loadUserPermission(studentAccount) completes
LoadUserPermission(studentAccount, readOk) ==
    /\ studentAccount \in permLoads
    /\ permLoads' = permLoads \ {studentAccount}
    /\ userPermission' = GetPermission(studentAccount, readOk)
    /\ UNCHANGED <<studentsDB, permissions, user, students, pageCalls,
                   notPage>>

\* the roster kept by loadData: rows with a group (the order of the list,
\* which no decision reads, is not kept)
RosterRows ==
    {[account |-> a, group |-> studentsDB[a]] :
        a \in {x \in Accounts : studentsDB[x] # "nan"}}

\* today's attendance as loadData gets it from getAttendanceByDate, which
\* answers [] when its read fails
TodaysAttendance(attendanceOk) ==
    IF attendanceOk THEN {attendance[d] : d \in DOMAIN attendance} ELSE {}

\* attendanceLookup[record.studentAccount] = record.isPresent
AttendanceLookup(attendanceData) ==
    [a \in {r.studentAccount : r \in attendanceData} |->
        (CHOOSE r \in attendanceData : r.studentAccount = a).isPresent]

\* participationLookup[record.studentAccount] = record.participationCount || 0
ParticipationLookup(attendanceData) ==
    [a \in {r.studentAccount : r \in attendanceData} |->
        LET r == CHOOSE x \in attendanceData : x.studentAccount = a IN
        IF "participationCount" \in DOMAIN r THEN r.participationCount ELSE 0]

\* loadData (page mount): setStudents of the filtered roster, then
\* setAttendance and setParticipation of today's records; a failed read of
\* the roster leaves the state as it was
LoadData(readOk, attendanceOk) ==
    /\ students' = IF readOk THEN RosterRows ELSE students
    /\ attendanceLookup' =
          IF readOk THEN AttendanceLookup(TodaysAttendance(attendanceOk))
                    ELSE attendanceLookup
    /\ participationLookup' =
          IF readOk THEN ParticipationLookup(TodaysAttendance(attendanceOk))
                    ELSE participationLookup
    /\ <<students, lookupVars>>' # <<students, lookupVars>>
    /\ UNCHANGED <<studentsDB, permissions, user, userPermission, permLoads,
                   pageCalls, notLookup>>

\* students.find(s => s.account === account): the rows found (none or one)
FindStudent(account) == {s \in students : s.account = account}

\* the checks of handleAttendanceChange / handleParticipationChange before
\* the write: logged in, canMarkAttendance, and for a group leader the
\* group comparison
HandlerAllows(studentAccount) ==
    /\ user # Null
    /\ userPermission # Null /\ userPermission.canMarkAttendance
    /\ ~ (/\ userPermission.role = "group_leader"
          /\ "studentAccount" \in DOMAIN user
          /\ \E currentUserStudent \in FindStudent(user.studentAccount),
                targetStudent \in FindStudent(studentAccount) :
                currentUserStudent.group # targetStudent.group)

\* {...prev, [studentAccount]: value}
Spread(prev, studentAccount, value) ==
    [a \in (DOMAIN prev) \cup {studentAccount} |->
        IF a = studentAccount THEN value ELSE prev[a]]

\* attendance[student.account] || false, as the row shows it
ShownPresent(lookup, studentAccount) ==
    IF studentAccount \in DOMAIN lookup THEN lookup[studentAccount] ELSE FALSE

\* participation[student.account] || 0 (also prev[studentAccount] || 0)
ShownCount(lookup, studentAccount) ==
    IF studentAccount \in DOMAIN lookup THEN lookup[studentAccount] ELSE 0

\* the write a handler issues; 'before' is what the row showed when the
\* handler ran (no action reads it)
PageCall(op, studentAccount, value) ==
    [id |-> CHOOSE i \in PageCallIds : \A c \in pageCalls : c.id # i,
     op |-> op, studentAccount |-> studentAccount, value |-> value,
     by |-> user.uid,
     before |-> IF op = "markAttendance"
                   THEN ShownPresent(attendanceLookup, studentAccount)
                   ELSE ShownCount(participationLookup, studentAccount)]

\* handleAttendanceChange(studentAccount, isPresent), up to the await of
\* attendanceService.markAttendance
HandleAttendanceChange(studentAccount, isPresent) ==
    /\ \E i \in PageCallIds : \A c \in pageCalls : c.id # i
    /\ HandlerAllows(studentAccount)
    /\ pageCalls' = pageCalls \cup {PageCall("markAttendance", studentAccount, isPresent)}
    /\ attendanceLookup' = Spread(attendanceLookup, studentAccount, isPresent)
    /\ UNCHANGED <<studentsDB, permissions, user, userPermission, permLoads,
                   students, participationLookup, notLookup>>

\* handleParticipationChange(studentAccount, count), up to the await of
\* attendanceService.updateParticipation
HandleParticipationChange(studentAccount, count) ==
    /\ \E i \in PageCallIds : \A c \in pageCalls : c.id # i
    /\ HandlerAllows(studentAccount)
    /\ pageCalls' = pageCalls \cup {PageCall("updateParticipation", studentAccount, count)}
    /\ participationLookup' = Spread(participationLookup, studentAccount, count)
    /\ UNCHANGED <<studentsDB, permissions, user, userPermission, permLoads,
                   students, attendanceLookup, notLookup>>

\* a variant of the catch that puts back what the row showed before
RevertToBefore(c) ==
    /\ attendanceLookup' =
          IF c.op = "markAttendance"
             THEN Spread(attendanceLookup, c.studentAccount, c.before)
             ELSE attendanceLookup
    /\ participationLookup' =
          IF c.op = "updateParticipation"
             THEN Spread(participationLookup, c.studentAccount, c.before)
             ELSE participationLookup

\* the catch of the handlers: 'Revert local state on error'
Revert(c) ==
    /\ attendanceLookup' =
          IF c.op = "markAttendance"
             THEN Spread(attendanceLookup, c.studentAccount, ~c.value)
             ELSE attendanceLookup
    /\ participationLookup' =
          IF c.op = "updateParticipation"
             THEN Spread(participationLookup, c.studentAccount,
                         ShownCount(participationLookup, c.studentAccount))
             ELSE participationLookup

\* the awaited service call resolves or rejects
PageCallSettled(c, ok) ==
    /\ c \in pageCalls
    /\ pageCalls' = pageCalls \ {c}
    /\ IF ok THEN UNCHANGED lookupVars ELSE Revert(c)
    /\ UNCHANGED <<studentsDB, permissions, user, userPermission, permLoads,
                   students, notLookup>>

\* e.target.checked of a row's checkbox when it is clicked
Checked(studentAccount) == ~ShownPresent(attendanceLookup, studentAccount)

\* what the - and + buttons of a row pass: Math.max(0, participationCount - 1)
\* (the button is disabled at 0) and participationCount + 1
ButtonCounts(studentAccount) ==
    LET participationCount == ShownCount(participationLookup, studentAccount)
    IN {n \in Counts : \/ n = participationCount + 1
                       \/ participationCount > 0 /\ n = participationCount - 1}

\* the rows show what loadData found in an empty collection
NothingShown == attendanceLookup = NoDocs /\ participationLookup = NoDocs

PageNext ==
    \/ \E a \in Accounts, g \in GroupValues : UpdateStudent(a, g)
    \/ \E a \in Subjects, r \in Roles : GrantAttendancePermission(a, r)
    \/ \E a \in Subjects : RevokeAttendancePermission(a)
    \/ \E a \in Subjects : InitializeDefaultPermission(a)
    \/ \E a \in Subjects : DeletePermission(a)
    \/ \E a \in Subjects : Login(a)
    \/ Logout
    \/ \E a \in Subjects, ok \in BOOLEAN : LoadUserPermission(a, ok)
    \/ \E ok, attendanceOk \in BOOLEAN : LoadData(ok, attendanceOk)
    \/ NothingShown /\ \E s \in students :
                         HandleAttendanceChange(s.account, Checked(s.account))
    \/ NothingShown /\ \E s \in students : \E n \in ButtonCounts(s.account) :
                         HandleParticipationChange(s.account, n)
    \/ \E c \in pageCalls, ok \in BOOLEAN : PageCallSettled(c, ok)

SpecPage == Init /\ [][PageNext]_vars

(***************************************************************************)
(* Vocabulary of the authorization claims.  The handlers are the place     *)
(* where a write is let through or not: they are taken for every row the   *)
(* page renders, in every state of the page (the disabled attribute of the *)
(* controls is presentation, computed by canInteractWithStudent, and is    *)
(* not a guard of the handlers).                                           *)
(***************************************************************************)
\* a handler step issues a write for the account
WriteIssuedFor(studentAccount) ==
    \E c \in pageCalls' \ pageCalls : c.studentAccount = studentAccount

\* both accounts are rows of the roster the page holds, with the same group
SameGroupInRoster(subject, target) ==
    \E s \in FindStudent(subject), t \in FindStudent(target) : s.group = t.group

\* the session acts for a group leader allowed to mark attendance
GroupLeaderSession ==
    /\ user # Null
    /\ userPermission # Null
    /\ userPermission.role = "group_leader"
    /\ userPermission.canMarkAttendance

(***************************************************************************)
(* C2: for a group leader with canMarkAttendance, the handlers issue the   *)
(* write for a target if and only if subject and target are both resolved  *)
(* in the roster with the same group; no write for a target whose group    *)
(* differs or cannot be resolved.                                          *)
(***************************************************************************)
C2_GroupLeaderScope ==
    [][GroupLeaderSession =>
          \A t \in Accounts :
              /\ WriteIssuedFor(t) => SameGroupInRoster(user.studentAccount, t)
              /\ SameGroupInRoster(user.studentAccount, t) => HandlerAllows(t)]_vars

(***************************************************************************)
(* C3: default deny.  With no user logged in, or a logged-in account that  *)
(* has no Permission record (or whose record cannot be read),              *)
(* canMarkAttendance and canEditGrades are false and the handlers issue    *)
(* no write, for every target.                                             *)
(***************************************************************************)
C3_DefaultDeny ==
    [][/\ \A a \in Accounts, ok \in BOOLEAN :
            (a \notin DOMAIN permissions \/ ~ok) =>
                ~CanMarkAttendance(a, ok) /\ ~CanEditGrades(a, ok)
       /\ (user = Null \/ user.studentAccount \notin DOMAIN permissions) =>
            \A t \in Accounts : ~WriteIssuedFor(t)]_vars

(***************************************************************************)
(* C4: a subject whose role is student is denied mark_attendance and       *)
(* update_participation on every target, in every permission state the     *)
(* permission operations reach.  (Role student: the stored Permission of   *)
(* the account and the one the session loaded both say so.)                *)
(***************************************************************************)
StudentSession ==
    /\ user # Null
    /\ user.studentAccount \in DOMAIN permissions
    /\ permissions[user.studentAccount].role = "student"
    /\ userPermission # Null => userPermission.role = "student"

C4_StudentDenied ==
    [][StudentSession => \A t \in Accounts : ~WriteIssuedFor(t)]_vars

(***************************************************************************)
(* C6: group scope follows the current roster.  Once a reassignment        *)
(* (updateStudent changing group) is in the store, a group leader's write  *)
(* is let through only if the groups now in the store agree: none is let   *)
(* through on the basis of groups read before the reassignment.            *)
(***************************************************************************)
C6_CurrentGroupScope ==
    [][GroupLeaderSession =>
          \A t \in Accounts :
              (/\ WriteIssuedFor(t)
               /\ FindStudent(user.studentAccount) # {}
               /\ FindStudent(t) # {}) =>
                  studentsDB[user.studentAccount] = studentsDB[t]]_vars

(***************************************************************************)
(* AuthService                                                             *)
(***************************************************************************)
\* accounts of the identity provider (email sign-in); an email is kept as
\* the list of its parts, so that includes() is a search in it
FirebaseUsers ==
    {[uid |-> "gv01", email |-> <<"gv01", "@teacher", ".uit.edu.vn">>],
     [uid |-> "102",  email |-> <<"102", "@student", ".uit.edu.vn">>],
     [uid |-> "kh01", email |-> <<"kh01", "@gmail", ".com">>]}

\* email.includes(part)
Includes(email, part) == \E i \in 1..Len(email) : email[i] = part

\* uid.match(/^\d+$/)
IsNumeric(uid) == uid \in Accounts

\* studentDoc.exists() && studentDoc.data().isGroupLeader: no operation of
\* the services writes an isGroupLeader field into a 'students' document
StudentDocIsGroupLeader(uid) == FALSE

\* enrichUserWithRole(user)
EnrichUserWithRole(fbUser) ==
    IF Includes(fbUser.email, "@teacher") \/ Includes(fbUser.email, "@admin")
    THEN [uid |-> fbUser.uid, email |-> fbUser.email, role |-> "teacher"]
    ELSE IF Includes(fbUser.email, "@student") \/ IsNumeric(fbUser.uid)
    THEN [uid |-> fbUser.uid, email |-> fbUser.email,
          role |-> IF StudentDocIsGroupLeader(fbUser.uid)
                      THEN "group_leader" ELSE "student",
          studentAccount |-> fbUser.uid]
    ELSE [uid |-> fbUser.uid, email |-> fbUser.email, role |-> "student"]

\* signInWithEmail(email, password) of a registered user; the [user] effect
\* of the page follows the new user
SignInWithEmail(fbUser) ==
    /\ user = Null
    /\ user' = EnrichUserWithRole(fbUser)
    /\ permLoads' = IF "studentAccount" \in DOMAIN user'
                       THEN permLoads \cup {user'.studentAccount}
                       ELSE permLoads
    /\ userPermission' = IF "studentAccount" \in DOMAIN user'
                            THEN userPermission ELSE Null
    /\ UNCHANGED <<studentsDB, permissions, students, pageCalls, notPage>>

\* hasPermission(user, permission)
HasPermission(u, permission) ==
    IF u = Null THEN FALSE
    ELSE CASE permission = "read_all" -> u.role \in {"teacher", "group_leader"}
           [] permission = "edit_attendance" -> u.role \in {"teacher", "group_leader"}
           [] permission = "edit_grades" -> u.role = "teacher"
           [] permission = "read_own" -> TRUE
           [] OTHER -> FALSE

\* teacherPermission of setTeacher
TeacherPermission(studentAccount) ==
    [studentAccount |-> studentAccount,
     canMarkAttendance |-> TRUE, canEditGrades |-> TRUE,
     isGroupLeader |-> FALSE, role |-> "teacher", createdBy |-> "admin"]

\* setTeacher(studentAccount, createdBy = 'admin')
SetTeacher(studentAccount) ==
    SetPermission(TeacherPermission(studentAccount))

\* the accounts a Permission record is kept for in the sign-in model
AuthAccounts == {"101", "gv01"}

AuthNext ==
    \/ \E a \in AuthAccounts, r \in Roles : GrantAttendancePermission(a, r)
    \/ \E a \in AuthAccounts : RevokeAttendancePermission(a)
    \/ \E a \in AuthAccounts : SetTeacher(a)
    \/ \E a \in AuthAccounts : DeletePermission(a)
    \/ \E a \in Subjects : Login(a)
    \/ \E f \in FirebaseUsers : SignInWithEmail(f)
    \/ Logout
    \/ \E a \in Accounts, ok \in BOOLEAN : LoadUserPermission(a, ok)

SpecAuth == Init /\ [][AuthNext]_vars

(***************************************************************************)
(* C5: the edit_grade decision is gated by the capability flag, not by the *)
(* role label: for every authenticated subject, hasPermission with         *)
(* 'edit_grades' allows if and only if the subject's Permission record has *)
(* canEditGrades = true.                                                   *)
(***************************************************************************)
\* the account the subject's Permission record is kept under
SubjectAccount(u) ==
    IF "studentAccount" \in DOMAIN u THEN u.studentAccount ELSE u.uid

C5_EditGradesByFlag ==
    user # Null =>
        (HasPermission(user, "edit_grades") <=>
            (/\ SubjectAccount(user) \in DOMAIN permissions
             /\ permissions[SubjectAccount(user)].canEditGrades))

(***************************************************************************)
(* GradeService                                                            *)
(*                                                                         *)
(* Category scores are numbers; a total is kept in hundredths (743 is      *)
(* 7.43), which is what toFixed(2) leaves.                                 *)
(***************************************************************************)
GradeAccounts == {"101"}
GradeTypes    == {"midterm", "final"}     \* the categories the callers write
GradeValues   == {7, 8}
GradeCallIds  == {1, 2}                   \* updateGrade calls at once

\* const weights = {...}, in hundredths
Weights ==
    [midterm |-> 30, final |-> 40, assignment1 |-> 10, assignment2 |-> 10,
     assignment3 |-> 5, project |-> 15, participation |-> 5]

RECURSIVE SumOver(_, _, _)
\* sum over the keys of f(record, key)
SumOver(keys, record, withValue) ==
    IF keys = {} THEN 0
    ELSE LET k == CHOOSE x \in keys : TRUE IN
         (IF withValue THEN record[k] * Weights[k] ELSE Weights[k])
         + SumOver(keys \ {k}, record, withValue)

\* n / d rounded to the nearest integer (halves up)
RoundDiv(n, d) == (2 * n + d) \div (2 * d)

\* a variant that divides by the sum of all the weights, whichever
\* categories the record holds
CalculateTotalOverAllWeights(gradeRecord) ==
    LET present == {k \in DOMAIN Weights : k \in DOMAIN gradeRecord}
        total == SumOver(present, gradeRecord, TRUE)
        totalWeight == SumOver(DOMAIN Weights, gradeRecord, FALSE)
    IN IF present # {} THEN RoundDiv(100 * total, totalWeight) ELSE 0

\* calculateTotal(gradeRecord)
CalculateTotal(gradeRecord) ==
    LET present == {k \in DOMAIN Weights : k \in DOMAIN gradeRecord}
        total == SumOver(present, gradeRecord, TRUE)
        totalWeight == SumOver(present, gradeRecord, FALSE)
    IN IF totalWeight > 0 THEN RoundDiv(100 * total, totalWeight) ELSE 0

\* getGradesByStudent(studentAccount): the documents whose studentAccount
\* field matches (docs[0] is taken; there is never more than one)
GradesByStudent(studentAccount) ==
    {d \in DOMAIN grades : grades[d].studentAccount = studentAccount}

FreeGradeCallIds == GradeCallIds \ {c.id : c \in gcalls}
NewGradeCallId == CHOOSE i \in FreeGradeCallIds : \A j \in FreeGradeCallIds : i <= j

GradeCall(i, op, studentAccount, gradeType, value, by, record, pc, batch) ==
    [id |-> i, op |-> op, studentAccount |-> studentAccount,
     gradeType |-> gradeType, value |-> value, by |-> by, record |-> record,
     pc |-> pc, existing |-> FALSE, updatedAt |-> 0, newTotal |-> 0,
     batch |-> batch]

GradeStep(c, d) == (gcalls \ {c}) \cup {d}

\* updateGrade(studentAccount, gradeType, value, updatedBy), up to the
\* await of getGradesByStudent
UpdateGradeStart(studentAccount, gradeType, value, updatedBy) ==
    /\ FreeGradeCallIds # {}
    /\ gcalls' = gcalls \cup
         {GradeCall(NewGradeCallId, "updateGrade", studentAccount, gradeType,
                    value, updatedBy, Null, "read", 0)}
    /\ UNCHANGED <<grades, upload, notGrade>>

\* the existence check returns (gradeData is built right after it), or it
\* throws and updateGrade rejects
UpdateGradeRead(c, readOk) ==
    /\ c.op = "updateGrade" /\ c.pc = "read"
    /\ gcalls' = GradeStep(c,
         IF readOk
         THEN [c EXCEPT !.pc = "write",
                        !.existing = (GradesByStudent(c.studentAccount) # {}),
                        !.updatedAt = now]
         ELSE [c EXCEPT !.pc = "failed"])
    /\ UNCHANGED <<grades, upload, notGrade>>

\* gradeData = {studentAccount, [gradeType]: value, updatedAt, updatedBy}
GradeData(c) ==
    MergeFields([studentAccount |-> c.studentAccount,
                 updatedAt |-> c.updatedAt, updatedBy |-> c.by],
                [k \in {c.gradeType} |-> c.value])

\* a variant in which a failed write of a batch item undoes the batch: the
\* records of the accounts the batch writes are removed
UpdateGradeWriteUndoingBatch(c, writeOk) ==
    /\ c.op = "updateGrade" /\ c.pc = "write"
    /\ IF ~writeOk \/ (c.existing /\ c.studentAccount \notin DOMAIN grades)
       THEN /\ gcalls' = GradeStep(c, [c EXCEPT !.pc = "failed"])
            /\ grades' = IF c.batch = 0 THEN grades
                         ELSE [d \in (DOMAIN grades) \
                                 {x.studentAccount : x \in {y \in gcalls : y.batch # 0}}
                               |-> grades[d]]
       ELSE /\ grades' = IF c.existing
                            THEN UpdateDoc(grades, c.studentAccount, GradeData(c))
                            ELSE SetDoc(grades, c.studentAccount, GradeData(c))
            /\ gcalls' = GradeStep(c, [c EXCEPT !.pc = "recalcRead"])
    /\ UNCHANGED <<upload, notGrade>>

\* the category write: updateDoc on an existing record, setDoc otherwise
UpdateGradeWrite(c, writeOk) ==
    /\ c.op = "updateGrade" /\ c.pc = "write"
    /\ IF ~writeOk \/ (c.existing /\ c.studentAccount \notin DOMAIN grades)
       THEN /\ gcalls' = GradeStep(c, [c EXCEPT !.pc = "failed"])
            /\ UNCHANGED grades
       ELSE /\ grades' = IF c.existing
                            THEN UpdateDoc(grades, c.studentAccount, GradeData(c))
                            ELSE SetDoc(grades, c.studentAccount, GradeData(c))
            /\ gcalls' = GradeStep(c, [c EXCEPT !.pc = "recalcRead"])
    /\ UNCHANGED <<upload, notGrade>>

\* a variant that recomputes from the data the call wrote, not from the
\* record read back
RecalculateTotalFromOwnData(c, readOk) ==
    /\ c.op = "updateGrade" /\ c.pc = "recalcRead"
    /\ gcalls' = GradeStep(c,
         IF readOk /\ GradesByStudent(c.studentAccount) # {}
         THEN [c EXCEPT !.pc = "recalcWrite",
                        !.newTotal = CalculateTotal(GradeData(c))]
         ELSE [c EXCEPT !.pc = "done"])
    /\ UNCHANGED <<grades, upload, notGrade>>

\* recalculateTotal: the read.  A failed read or a missing record ends the
\* recomputation (the error is only logged) and updateGrade returns.
RecalculateTotalRead(c, readOk) ==
    /\ c.op = "updateGrade" /\ c.pc = "recalcRead"
    /\ gcalls' = GradeStep(c,
         IF readOk /\ GradesByStudent(c.studentAccount) # {}
         THEN LET d == CHOOSE x \in GradesByStudent(c.studentAccount) : TRUE IN
              [c EXCEPT !.pc = "recalcWrite",
                        !.newTotal = CalculateTotal(grades[d])]
         ELSE [c EXCEPT !.pc = "done"])
    /\ UNCHANGED <<grades, upload, notGrade>>

\* recalculateTotal: updateDoc of {total, updatedAt}; a rejection is only
\* logged.  updateGrade returns.
RecalculateTotalWrite(c, writeOk) ==
    /\ c.op = "updateGrade" /\ c.pc = "recalcWrite"
    /\ grades' = IF writeOk /\ c.studentAccount \in DOMAIN grades
                    THEN UpdateDoc(grades, c.studentAccount,
                                   [total |-> c.newTotal, updatedAt |-> now])
                    ELSE grades
    /\ gcalls' = GradeStep(c, [c EXCEPT !.pc = "done"])
    /\ UNCHANGED <<upload, notGrade>>

\* the records callers pass to updateFullGrade; some carry a total of
\* their own
FullGradeRecords ==
    {MergeFields([studentAccount |-> a, updatedBy |-> u], scores) :
        a \in GradeAccounts, u \in Actors,
        scores \in {[midterm |-> 8], [midterm |-> 8, final |-> 7],
                    [midterm |-> 8, final |-> 7, total |-> 1000],
                    [final |-> 7, total |-> 0]}}

\* updateFullGrade(gradeRecord), up to the await of setDoc
UpdateFullGradeStart(gradeRecord) ==
    /\ FreeGradeCallIds # {}
    /\ gcalls' = gcalls \cup
         {[GradeCall(NewGradeCallId, "updateFullGrade",
                     gradeRecord.studentAccount, "", 0, gradeRecord.updatedBy,
                     gradeRecord, "write", 0)
             EXCEPT !.updatedAt = now,
                    !.newTotal = CalculateTotal(gradeRecord)]}
    /\ UNCHANGED <<grades, upload, notGrade>>

\* gradeData = {...gradeRecord, updatedAt, total: calculateTotal(gradeRecord)}
FullGradeData(c) ==
    MergeFields(c.record, [updatedAt |-> c.updatedAt, total |-> c.newTotal])

\* the setDoc of updateFullGrade
UpdateFullGradeWrite(c, writeOk) ==
    /\ c.op = "updateFullGrade" /\ c.pc = "write"
    /\ IF writeOk
       THEN /\ grades' = SetDoc(grades, c.studentAccount, FullGradeData(c))
            /\ gcalls' = GradeStep(c, [c EXCEPT !.pc = "done"])
       ELSE /\ gcalls' = GradeStep(c, [c EXCEPT !.pc = "failed"])
            /\ UNCHANGED grades
    /\ UNCHANGED <<upload, notGrade>>

\* deleteGrade(studentAccount)
DeleteGrade(studentAccount) ==
    /\ studentAccount \in DOMAIN grades
    /\ grades' = DeleteDoc(grades, studentAccount)
    /\ UNCHANGED <<gcalls, upload, notGrade>>

\* the caller has the outcome of a settled call
GradeReturn(c) ==
    /\ c.pc \in {"done", "failed"}
    /\ c.batch = 0
    /\ gcalls' = gcalls \ {c}
    /\ UNCHANGED <<grades, upload, notGrade>>

GradeNext ==
    \/ \E a \in GradeAccounts, t \in GradeTypes, v \in GradeValues, u \in Actors :
          UpdateGradeStart(a, t, v, u)
    \/ \E c \in gcalls, ok \in BOOLEAN : UpdateGradeRead(c, ok)
    \/ \E c \in gcalls, ok \in BOOLEAN : UpdateGradeWrite(c, ok)
    \/ \E c \in gcalls, ok \in BOOLEAN : RecalculateTotalRead(c, ok)
    \/ \E c \in gcalls, ok \in BOOLEAN : RecalculateTotalWrite(c, ok)
    \/ \E r \in FullGradeRecords : UpdateFullGradeStart(r)
    \/ \E c \in gcalls, ok \in BOOLEAN : UpdateFullGradeWrite(c, ok)
    \/ \E a \in GradeAccounts : DeleteGrade(a)
    \/ \E c \in gcalls : GradeReturn(c)

SpecGrade == Init /\ [][GradeNext]_vars

(***************************************************************************)
(* C7: whenever updateGrade or updateFullGrade has returned successfully   *)
(* for a student and no other grade write for that student is in flight,   *)
(* the stored total equals weightedTotal of the category scores stored in  *)
(* that record; a total supplied by the caller is never the value stored.  *)
(***************************************************************************)
GradeInFlight(studentAccount) ==
    \E c \in gcalls : c.studentAccount = studentAccount
                      /\ c.pc \notin {"done", "failed"}

C7_TotalRecomputed ==
    \A c \in gcalls :
        (/\ c.pc = "done"
         /\ ~GradeInFlight(c.studentAccount)
         /\ c.studentAccount \in DOMAIN grades) =>
            /\ "total" \in DOMAIN grades[c.studentAccount]
            /\ grades[c.studentAccount].total
                  = CalculateTotal(grades[c.studentAccount])

(***************************************************************************)
(* GradeService.processExcelUpload                                         *)
(*                                                                         *)
(* A row maps column names to cells; a cell is a number or a string, and   *)
(* a column the row lacks reads as undefined.                              *)
(***************************************************************************)
MaxRows == 3

Undefined == [kind |-> "undefined"]
NaN       == [kind |-> "nan"]
Num(n)    == [kind |-> "num", n |-> n]
Str(s)    == [kind |-> "str", s |-> s]

\* row[col]
Cell(row, col) == IF col \in DOMAIN row THEN row[col] ELSE Undefined

\* JavaScript truthiness of a cell
Truthy(v) ==
    \/ v.kind = "num" /\ v.n # 0
    \/ v.kind = "str" /\ v.s # ""

\* a || b
Or(a, b) == IF Truthy(a) THEN a ELSE b

\* the leading number of the strings that occur in the rows below
NumericPrefix == ("8" :> 8) @@ ("0" :> 0) @@ ("7abc" :> 7)

\* parseFloat(v)
ParseFloat(v) ==
    CASE v.kind = "num" -> v
      [] v.kind = "str" /\ v.s \in DOMAIN NumericPrefix -> Num(NumericPrefix[v.s])
      [] OTHER -> NaN

\* the rows a sheet can hold
UploadRows ==
    { [account |-> Str("101"), midterm |-> Num(7)],
      [MSSV |-> Str("102"), score |-> Str("8")],
      [account |-> Str("102"), midterm |-> Num(11)],
      [midterm |-> Num(7)],
      [account |-> Str("101"), midterm |-> Num(0)] }

RECURSIVE SeqsUpTo(_, _)
SeqsUpTo(S, n) ==
    IF n = 0 THEN {<<>>}
    ELSE LET shorter == SeqsUpTo(S, n - 1) IN
         shorter \cup {Append(q, x) : q \in {r \in shorter : Len(r) = n - 1}, x \in S}

UploadTypes == {"midterm"}

\* the body of the validation loop for row i (0-based): the error it
\* pushes, or the valid grade
ValidateRow(row, i, gradeType) ==
    LET accountCell == Or(Or(Cell(row, "account"), Cell(row, "MSSV")),
                          Cell(row, "studentAccount"))
        gradeValue == Or(Or(Cell(row, gradeType), Cell(row, "grade")),
                         Cell(row, "score"))
        numericGrade == ParseFloat(gradeValue)
    IN IF /\ ~Truthy(Cell(row, "account")) /\ ~Truthy(Cell(row, "MSSV"))
          /\ ~Truthy(Cell(row, "studentAccount"))
       THEN [ok |-> FALSE, row |-> i + 2, account |-> "N/A",
             field |-> "account", error |-> "missing account"]
       ELSE IF gradeValue = Undefined \/ gradeValue = Str("")
       THEN [ok |-> FALSE, row |-> i + 2, account |-> accountCell.s,
             field |-> gradeType, error |-> "missing grade"]
       ELSE IF numericGrade = NaN \/ numericGrade.n < 0 \/ numericGrade.n > 10
       THEN [ok |-> FALSE, row |-> i + 2, account |-> accountCell.s,
             field |-> gradeType, error |-> "invalid grade"]
       ELSE [ok |-> TRUE, studentAccount |-> accountCell.s,
             gradeType |-> gradeType, value |-> numericGrade.n]

RECURSIVE Validate(_, _, _)
\* the validation loop over excelData[0 .. n-1]
Validate(excelData, n, gradeType) ==
    IF n = 0 THEN [errors |-> <<>>, validGrades |-> <<>>]
    ELSE LET sofar == Validate(excelData, n - 1, gradeType)
             v == ValidateRow(excelData[n], n - 1, gradeType)
         IN IF v.ok
            THEN [sofar EXCEPT !.validGrades =
                    Append(@, [studentAccount |-> v.studentAccount,
                               gradeType |-> v.gradeType, value |-> v.value])]
            ELSE [sofar EXCEPT !.errors =
                    Append(@, [row |-> v.row, account |-> v.account,
                               field |-> v.field, error |-> v.error])]

\* a variant that reports success as soon as some row passed
UploadResultSuccessIfAnyPassed(errors, validGrades, excelData) ==
    [success |-> errors = <<>> \/ validGrades # <<>>,
     message |-> IF errors = <<>> THEN "updated" ELSE "errors in file",
     errors |-> errors,
     processedCount |-> Len(validGrades),
     totalCount |-> Len(excelData)]

\* a variant that counts nothing as processed when errors exist
UploadResultZeroOnErrors(errors, validGrades, excelData) ==
    [success |-> errors = <<>>,
     message |-> IF errors = <<>> THEN "updated" ELSE "errors in file",
     errors |-> errors,
     processedCount |-> IF errors = <<>> THEN Len(validGrades) ELSE 0,
     totalCount |-> Len(excelData)]

\* the object processExcelUpload returns from its try block
UploadResult(errors, validGrades, excelData) ==
    [success |-> errors = <<>>,
     message |-> IF errors = <<>> THEN "updated" ELSE "errors in file",
     errors |-> errors,
     processedCount |-> Len(validGrades),
     totalCount |-> Len(excelData)]

\* a variant of the catch block that counts no rows at all
UploadFailureWithoutCount(excelData) ==
    [success |-> FALSE, message |-> "processing error", errors |-> <<>>,
     processedCount |-> 0, totalCount |-> 0]

\* the object it returns from its catch block
UploadFailure(excelData) ==
    [success |-> FALSE, message |-> "processing error", errors |-> <<>>,
     processedCount |-> 0, totalCount |-> Len(excelData)]

BatchCalls == {c \in gcalls : c.batch # 0}

\* batchUpdateGrades(grades, updatedBy): every updateGrade runs up to its
\* first await
BatchUpdateGradesCalls(validGrades, updatedBy) ==
    {GradeCall(i, "updateGrade", validGrades[i].studentAccount,
               validGrades[i].gradeType, validGrades[i].value, updatedBy,
               Null, "read", i) : i \in 1..Len(validGrades)}

\* a variant that commits the rows that passed whatever the errors are
ProcessExcelUploadUngated(excelData, gradeType, updatedBy) ==
    /\ upload = Null /\ BatchCalls = {}
    /\ LET v == Validate(excelData, Len(excelData), gradeType) IN
       /\ gcalls' = gcalls \cup BatchUpdateGradesCalls(v.validGrades, updatedBy)
       /\ upload' = [excelData |-> excelData, gradeType |-> gradeType,
                          errors |-> v.errors,
                     validGrades |-> v.validGrades, pc |-> "commit",
                     result |-> Null]
    /\ UNCHANGED <<grades, notGrade>>

\* processExcelUpload(excelData, gradeType, updatedBy) up to its await, or
\* to its return when validation found errors
ProcessExcelUpload(excelData, gradeType, updatedBy) ==
    /\ upload = Null /\ BatchCalls = {}
    /\ LET v == Validate(excelData, Len(excelData), gradeType) IN
       IF v.errors = <<>>
       THEN /\ gcalls' = gcalls \cup BatchUpdateGradesCalls(v.validGrades, updatedBy)
            /\ upload' = [excelData |-> excelData, gradeType |-> gradeType,
                          errors |-> v.errors,
                          validGrades |-> v.validGrades, pc |-> "commit",
                          result |-> Null]
       ELSE /\ upload' = [excelData |-> excelData, gradeType |-> gradeType,
                          errors |-> v.errors,
                          validGrades |-> v.validGrades, pc |-> "returned",
                          result |-> UploadResult(v.errors, v.validGrades, excelData)]
            /\ UNCHANGED gcalls
    /\ UNCHANGED <<grades, notGrade>>

\* Promise.all resolved: every updateGrade of the batch returned
UploadReturns ==
    /\ upload # Null /\ upload.pc = "commit"
    /\ \A c \in BatchCalls : c.pc = "done"
    /\ upload' = [upload EXCEPT !.pc = "returned",
                    !.result = UploadResult(upload.errors, upload.validGrades,
                                            upload.excelData)]
    /\ UNCHANGED <<grades, gcalls, notGrade>>

\* Promise.all rejected with the first updateGrade that failed; the other
\* calls of the batch keep running
UploadCatches ==
    /\ upload # Null /\ upload.pc = "commit"
    /\ \E c \in BatchCalls : c.pc = "failed"
    /\ upload' = [upload EXCEPT !.pc = "returned",
                    !.result = UploadFailure(upload.excelData)]
    /\ UNCHANGED <<grades, gcalls, notGrade>>

\* the caller is done with the result and the batch has run out
UploadReset ==
    /\ upload # Null /\ upload.pc = "returned"
    /\ \A c \in BatchCalls : c.pc \in {"done", "failed"}
    /\ upload' = Null
    /\ gcalls' = gcalls \ BatchCalls
    /\ UNCHANGED <<grades, notGrade>>

UploadNext ==
    \/ \E rows \in SeqsUpTo(UploadRows, MaxRows), t \in UploadTypes, u \in Actors :
          ProcessExcelUpload(rows, t, u)
    \/ \E c \in BatchCalls, ok \in BOOLEAN : UpdateGradeRead(c, ok)
    \/ \E c \in BatchCalls, ok \in BOOLEAN : UpdateGradeWrite(c, ok)
    \/ \E c \in BatchCalls, ok \in BOOLEAN : RecalculateTotalRead(c, ok)
    \/ \E c \in BatchCalls, ok \in BOOLEAN : RecalculateTotalWrite(c, ok)
    \/ UploadReturns
    \/ UploadCatches
    \/ UploadReset

SpecUpload == Init /\ [][UploadNext]_vars

\* the rows of the sheet that the validation loop rejects / lets through
RejectedRows(u) ==
    {i \in 1..Len(u.excelData) : ~ValidateRow(u.excelData[i], i - 1, u.gradeType).ok}
PassedRows(u) == (1..Len(u.excelData)) \ RejectedRows(u)

UploadReturned == upload # Null /\ upload.pc = "returned"

(***************************************************************************)
(* C8: if at least one row of a bulk upload fails validation,              *)
(* processExcelUpload commits zero rows: for as long as such a call and    *)
(* its result exist no step creates or modifies a grade record, and no     *)
(* updateGrade is started for it.                                          *)
(***************************************************************************)
C8_NothingCommitted ==
    [][(upload' # Null /\ RejectedRows(upload') # {}) =>
          (grades' = grades /\ BatchCalls' = {})]_vars

\* an upload with a rejected row and rows that passed has returned, over a
\* store that holds records
C8_Witness ==
    /\ UploadReturned
    /\ RejectedRows(upload) # {} /\ PassedRows(upload) # {}
    /\ grades # NoDocs

(***************************************************************************)
(* C9, as stated: for a batch with at least one invalid row the envelope   *)
(* has success = false, processedCount = 0 and exactly one error per       *)
(* invalid row; for a batch whose rows are all valid and whose writes      *)
(* succeed, success = true and processedCount = number of rows.            *)
(***************************************************************************)
C9_EnvelopeAsStated ==
    UploadReturned =>
       /\ RejectedRows(upload) # {} =>
             /\ upload.result.success = FALSE
             /\ upload.result.processedCount = 0
             /\ Len(upload.result.errors) = Cardinality(RejectedRows(upload))
       /\ (RejectedRows(upload) = {} /\ \A c \in BatchCalls : c.pc = "done") =>
             /\ upload.result.success = TRUE
             /\ upload.result.processedCount = Len(upload.excelData)

(***************************************************************************)
(* C9, amended: for a batch with at least one invalid row the envelope has *)
(* success = false, exactly one error per invalid row, in row order, and   *)
(* processedCount = the number of rows that passed validation; for a       *)
(* batch whose rows are all valid and whose writes succeed, success = true *)
(* and processedCount = number of rows.                                    *)
(***************************************************************************)
C9_Envelope ==
    UploadReturned =>
       /\ RejectedRows(upload) # {} =>
             /\ upload.result.success = FALSE
             /\ upload.result.processedCount = Cardinality(PassedRows(upload))
             /\ Len(upload.result.errors) = Cardinality(RejectedRows(upload))
             /\ {e.row : e \in {upload.result.errors[k] :
                                  k \in 1..Len(upload.result.errors)}}
                   = {i + 1 : i \in RejectedRows(upload)}
       /\ (RejectedRows(upload) = {} /\ \A c \in BatchCalls : c.pc = "done") =>
             /\ upload.result.success = TRUE
             /\ upload.result.processedCount = Len(upload.excelData)

\* two rows passed and one was rejected
C9_Witness ==
    /\ UploadReturned
    /\ Cardinality(PassedRows(upload)) = 2
    /\ Cardinality(RejectedRows(upload)) = 1
    /\ upload.result.processedCount = 2

\* every row passed and every write went through
C9_WitnessAllValid ==
    /\ UploadReturned
    /\ Len(upload.excelData) = MaxRows
    /\ RejectedRows(upload) = {}
    /\ \A c \in BatchCalls : c.pc = "done"
    /\ upload.result.success

(***************************************************************************)
(* C10: when a batch contains invalid rows, processedCount in the envelope *)
(* equals the number of rows that passed validation, although none of      *)
(* them was written (no updateGrade exists for them).                      *)
(***************************************************************************)
C10_ProcessedCountIsPassed ==
    (UploadReturned /\ RejectedRows(upload) # {}) =>
       /\ upload.result.processedCount = Cardinality(PassedRows(upload))
       /\ upload.result.processedCount = Len(upload.validGrades)
       /\ BatchCalls = {}

\* one row passed, two were rejected, and the store holds no record
C10_Witness ==
    /\ UploadReturned
    /\ Cardinality(RejectedRows(upload)) = 2
    /\ upload.result.processedCount = 1
    /\ grades = NoDocs

(***************************************************************************)
(* The validation loop on one row, for every row of a family of rows.      *)
(***************************************************************************)
\* what a cell of an account column / of a score column can hold
AccountCells == {Str(""), Str("101")}
ScoreCells ==
    {Num(0), Num(7), Num(10), Num(11), Num(-1),
     Str(""), Str("0"), Str("8"), Str("abc"), Str("7abc")}

\* rows with any of the account aliases and at most one score column
ValidationRows ==
    {MergeFields(accounts, score) :
        accounts \in UNION {[cols -> AccountCells] :
                              cols \in SUBSET {"account", "MSSV", "studentAccount"}},
        score \in UNION {[cols -> ScoreCells] :
                           cols \in {{}, {"midterm"}, {"grade"}, {"score"}}}}

ValidateInit ==
    /\ StoreInit /\ PageInit /\ GradeInit /\ CallerInit
    /\ LookupInit /\ QueryInit
    /\ sheetRow \in ValidationRows
    /\ validated = Null

\* one pass of the loop body over the row
ValidateOne(gradeType) ==
    /\ validated = Null
    /\ validated' = ValidateRow(sheetRow, 0, gradeType)
    /\ UNCHANGED <<sheetRow, notSheet>>

ValidateNext == \E t \in UploadTypes : ValidateOne(t)

SpecValidate == ValidateInit /\ [][ValidateNext]_vars

\* the strings that are a number as a whole, with the number they denote
WholeNumbers == ("8" :> 8) @@ ("0" :> 0)

\* the row carries a non-empty account under one of the aliases
CarriesAccount(r) ==
    \E col \in {"account", "MSSV", "studentAccount"} :
        col \in DOMAIN r /\ r[col].kind = "str" /\ r[col].s # ""

\* the row carries a grade value that is numeric and within [0,10]
CarriesGradeInRange(r, gradeType) ==
    \E col \in {gradeType, "grade", "score"} :
        /\ col \in DOMAIN r
        /\ \/ r[col].kind = "num" /\ 0 <= r[col].n /\ r[col].n <= 10
           \/ /\ r[col].kind = "str" /\ r[col].s \in DOMAIN WholeNumbers
              /\ 0 <= WholeNumbers[r[col].s] /\ WholeNumbers[r[col].s] <= 10

(***************************************************************************)
(* C11: row validation accepts a row if and only if it carries a non-empty *)
(* account under one of the aliases and a grade value that is numeric with *)
(* 0 <= value <= 10 (0 and 10 accepted); every other row gives an error    *)
(* entry.                                                                  *)
(***************************************************************************)
C11_ValidationRange ==
    validated # Null =>
        (validated.ok <=> (CarriesAccount(sheetRow) /\ CarriesGradeInRange(sheetRow, "midterm")))

(***************************************************************************)
(* Callers that await their calls, under a clock that advances.            *)
(***************************************************************************)
RaceAccounts == {"101"}

\* time passes
Tick ==
    /\ now < MaxClock
    /\ now' = now + 1
    /\ UNCHANGED <<attendance, calls, notStore>>

\* markAttendance called by a caller that awaits it, up to the await of
\* getAttendanceRecords
MarkAttendanceAwaited(studentAccount, date, isPresent, markedBy) ==
    /\ FreeCallIds # {}
    /\ \A c \in calls : c.op = "mark"
    /\ calls' = calls \cup
         {NewCall(NewCallId, "mark", studentAccount, date, isPresent, 0,
                  markedBy, "read", NewCallId)}
    /\ UNCHANGED <<attendance, now, notStore>>

\* a caller calls markAttendance or updateGrade and awaits it, in order to
\* call it again with the same arguments
RepeatFirst(op, studentAccount, isPresent, gradeType, value, by) ==
    /\ client = Null
    /\ calls = {} /\ gcalls = {}
    /\ client' = [op |-> op, step |-> 1]
    /\ IF op = "mark"
       THEN /\ calls' = {NewCall(1, "mark", studentAccount,
                                 CHOOSE d \in Dates : TRUE, isPresent, 0, by,
                                 "read", 1)}
            /\ UNCHANGED gcalls
       ELSE /\ gcalls' = {GradeCall(1, "updateGrade", studentAccount, gradeType,
                                    value, by, Null, "read", 0)}
            /\ UNCHANGED calls
    /\ UNCHANGED <<attendance, now, grades, upload, pageVars, sheetVars, permVars,
                   lookupVars, queryVars>>

\* the first call has returned successfully: the same call again
RepeatSecond ==
    /\ client # Null /\ client.step = 1
    /\ client' = [client EXCEPT !.step = 2]
    /\ IF client.op = "mark"
       THEN /\ \E c \in calls : c.pc = "done"
            /\ calls' = calls \cup
                 {[c EXCEPT !.id = 2, !.batch = 2, !.pc = "read",
                            !.existing = FALSE, !.updatedAt = now] : c \in calls}
            /\ UNCHANGED gcalls
       ELSE /\ \E c \in gcalls : c.pc = "done"
            /\ gcalls' = gcalls \cup
                 {[c EXCEPT !.id = 2, !.pc = "read", !.existing = FALSE,
                            !.updatedAt = 0, !.newTotal = 0] : c \in gcalls}
            /\ UNCHANGED calls
    /\ UNCHANGED <<attendance, now, grades, upload, pageVars, sheetVars, permVars,
                   lookupVars, queryVars>>

\* the caller is through: a call was rejected, or the second one returned
RepeatEnds ==
    /\ client # Null
    /\ \/ \E c \in calls \cup gcalls : c.pc = "failed"
       \/ client.step = 2 /\ \A c \in calls \cup gcalls : c.pc = "done"
    /\ client' = Null
    /\ calls' = {} /\ gcalls' = {}
    /\ UNCHANGED <<attendance, now, grades, upload, pageVars, sheetVars, permVars,
                   lookupVars, queryVars>>

\* No step of one collection reads the other: the callers work on the
\* attendance records while there is no grade record, and the other way
\* round.
CallersNext ==
    \/ Tick
    \/ client = Null /\ grades = NoDocs /\
          \E a \in RaceAccounts, d \in Dates, p \in BOOLEAN, u \in Actors :
             MarkAttendanceAwaited(a, d, p, u)
    \/ \E c \in calls, ok \in BOOLEAN : MarkAttendanceRead(c, ok)
    \/ \E c \in calls, ok \in BOOLEAN : MarkAttendanceWrite(c, ok)
    \/ client = Null /\ \E b \in CallIds : BatchMarkAttendanceSettles(b)
    \/ client = Null /\ calls = {} /\ grades = NoDocs /\
          \E a \in RaceAccounts, d \in Dates, n \in Counts, u \in Actors :
             UpdateParticipationStart(a, d, n, u)
    \/ \E c \in calls, ok \in BOOLEAN : UpdateParticipationWrite(c, ok)
    \/ \E a \in RaceAccounts, p \in BOOLEAN, u \in Actors :
          grades = NoDocs /\ RepeatFirst("mark", a, p, "", 0, u)
    \/ \E a \in RaceAccounts, t \in GradeTypes, v \in GradeValues, u \in Actors :
          attendance = NoDocs /\ RepeatFirst("updateGrade", a, FALSE, t, v, u)
    \/ RepeatSecond
    \/ RepeatEnds
    \/ \E c \in gcalls, ok \in BOOLEAN : UpdateGradeRead(c, ok)
    \/ \E c \in gcalls, ok \in BOOLEAN : UpdateGradeWrite(c, ok)
    \/ \E c \in gcalls, ok \in BOOLEAN : RecalculateTotalRead(c, ok)
    \/ \E c \in gcalls, ok \in BOOLEAN : RecalculateTotalWrite(c, ok)

SpecCallers == Init /\ [][CallersNext]_vars

\* two versions of a collection hold the same documents apart from updatedAt
SameButUpdatedAt(before, after) ==
    /\ DOMAIN before = DOMAIN after
    /\ \A d \in DOMAIN before :
          /\ DOMAIN before[d] = DOMAIN after[d]
          /\ \A f \in DOMAIN before[d] \ {"updatedAt"} : before[d][f] = after[d][f]

(***************************************************************************)
(* C12: calling markAttendance twice in sequence with the same arguments   *)
(* leaves the store as calling it once did, apart from updatedAt (one      *)
(* record, same isPresent, participationCount and createdAt); likewise for *)
(* updateGrade (same categories and total).  From the moment the first     *)
(* call has returned successfully and the second one is made, no step      *)
(* changes a record other than in updatedAt.                               *)
(***************************************************************************)
C12_RepeatIsIdempotent ==
    [][(client # Null /\ client.step = 2) =>
          /\ SameButUpdatedAt(attendance, attendance')
          /\ SameButUpdatedAt(grades, grades')]_vars

\* two awaited markAttendance calls on one (account, date), both returned
\* successfully
BothMarked(c1, c2) ==
    /\ client = Null
    /\ c1 # c2
    /\ c1.op = "mark" /\ c2.op = "mark"
    /\ c1.pc = "done" /\ c2.pc = "done"
    /\ c1.studentAccount = c2.studentAccount /\ c1.date = c2.date

(***************************************************************************)
(* C13: when two markAttendance calls on the same (account, date) have     *)
(* both succeeded, the record that remains is the state written by one of  *)
(* the two calls, and it is the one with the later updatedAt stamp.        *)
(***************************************************************************)
C13_LaterStampWins ==
    \A c1, c2 \in calls :
        BothMarked(c1, c2) =>
            LET d == DocId(c1.studentAccount, c1.date)
                later == IF c1.updatedAt >= c2.updatedAt
                            THEN c1.updatedAt ELSE c2.updatedAt
            IN /\ d \in DOMAIN attendance
               /\ attendance[d].updatedAt = later
               /\ \E c \in {c1, c2} :
                     /\ c.updatedAt = later
                     /\ attendance[d].isPresent = c.isPresent
                     /\ attendance[d].updatedBy = c.by

GradesOnly     == attendance = NoDocs /\ calls = {}
AttendanceOnly == grades = NoDocs /\ upload = Null

BatchesNext ==
    \/ \E rows \in SeqsUpTo(UploadRows, MaxRows), t \in UploadTypes, u \in Actors :
          GradesOnly /\ ProcessExcelUpload(rows, t, u)
    \/ \E c \in BatchCalls, ok \in BOOLEAN : UpdateGradeRead(c, ok)
    \/ \E c \in BatchCalls, ok \in BOOLEAN : UpdateGradeWrite(c, ok)
    \/ \E c \in BatchCalls, ok \in BOOLEAN : RecalculateTotalRead(c, ok)
    \/ \E c \in BatchCalls, ok \in BOOLEAN : RecalculateTotalWrite(c, ok)
    \/ UploadReturns
    \/ UploadCatches
    \/ UploadReset
    \/ \E i1, i2 \in BatchItems, u \in Actors :
          AttendanceOnly /\ BatchMarkAttendance(i1, i2, u)
    \/ \E c \in calls, ok \in BOOLEAN : MarkAttendanceRead(c, ok)
    \/ \E c \in calls, ok \in BOOLEAN : MarkAttendanceWrite(c, ok)
    \/ \E b \in CallIds : BatchMarkAttendanceSettles(b)

SpecBatches == Init /\ [][BatchesNext]_vars

\* the category write of a grade call has been applied
GradeWritten(c) == c.pc \in {"recalcRead", "recalcWrite", "done"}

(***************************************************************************)
(* C15: in a validated batch committed by batchUpdateGrades or by          *)
(* batchMarkAttendance the item writes are independent.  The write of an   *)
(* item, once applied, stays in the store whatever happens to the other    *)
(* items of the batch (unless another item of the batch writes another     *)
(* value to the same place), and a failing item changes nothing.           *)
(***************************************************************************)
C15_ItemWritesStay ==
    /\ \A c \in BatchCalls :
          (/\ GradeWritten(c)
           /\ \A o \in BatchCalls :
                 (o.studentAccount = c.studentAccount /\ o.gradeType = c.gradeType)
                    => o.value = c.value) =>
              /\ c.studentAccount \in DOMAIN grades
              /\ grades[c.studentAccount][c.gradeType] = c.value
    /\ \A c \in calls :
          (/\ c.batch # 0 /\ c.op = "mark" /\ c.pc = "done"
           /\ \A o \in BatchOf(c.batch) :
                 (o.studentAccount = c.studentAccount /\ o.date = c.date)
                    => o.isPresent = c.isPresent) =>
              /\ DocId(c.studentAccount, c.date) \in DOMAIN attendance
              /\ attendance[DocId(c.studentAccount, c.date)].isPresent = c.isPresent

\* a batch of two rows: the write of one row was rejected, the other row
\* is in the store, and the store holds nothing for the rejected row
C15_Witness ==
    \E c1, c2 \in BatchCalls :
        /\ Cardinality(BatchCalls) = 2
        /\ c1.pc = "failed" /\ ~c1.existing
        /\ c2.pc = "done"
        /\ c1.studentAccount # c2.studentAccount
        /\ c1.studentAccount \notin DOMAIN grades
        /\ c2.studentAccount \in DOMAIN grades
        /\ grades[c2.studentAccount][c2.gradeType] = c2.value

(***************************************************************************)
(* C16: when a write fails while a fully validated batch is being          *)
(* committed, the result of processExcelUpload reports the failure per     *)
(* row: when the call returns, errors holds an entry for each row whose    *)
(* write has failed.                                                       *)
(***************************************************************************)
C16_WriteFailuresPerRow ==
    [][(upload # Null /\ upload.pc = "commit" /\ upload' # Null
        /\ upload'.pc = "returned") =>
          \A c \in BatchCalls :
              c.pc = "failed" =>
                 \E k \in 1..Len(upload'.result.errors) :
                     upload'.result.errors[k].row = c.batch + 1]_vars

(***************************************************************************)
(* PermissionService.setPermission, split at its awaits, under the         *)
(* operations that grant and revoke.  The readings of Timestamp.now()      *)
(* taken in one synchronous section coincide.                              *)
(***************************************************************************)
PermAccounts == {"101", "102"}
PermCallIds  == {1, 2}

\* groupLeaderPermission of setGroupLeader
GroupLeaderPermission(studentAccount) ==
    [studentAccount |-> studentAccount,
     canMarkAttendance |-> TRUE, canEditGrades |-> FALSE,
     isGroupLeader |-> TRUE, role |-> "group_leader", createdBy |-> "admin"]

\* the permission setupTeacher(teacherMSSV) passes on
TeacherSetup(teacherMSSV) == AttendanceGrant(teacherMSSV, "teacher")

\* what the granting operations hand to setPermission for an account
GrantedPermissions(a) ==
    {AttendanceGrant(a, r) : r \in Roles}
    \cup {AttendanceRevocation(a), TeacherSetup(a), GroupLeaderPermission(a),
          TeacherPermission(a), DefaultPermission(a)}

\* the calls made: every operation on the first account, and the default
\* permission of a second one
PermissionRequests ==
    GrantedPermissions("101") \cup {DefaultPermission("102")}

FreePermCallIds == PermCallIds \ {c.id : c \in permCalls}

\* setPermission(permission), up to the await of getDoc
SetPermissionStart(permission) ==
    /\ FreePermCallIds # {}
    /\ permCalls' = permCalls \cup
         {[id |-> CHOOSE i \in FreePermCallIds : \A j \in FreePermCallIds : i <= j,
           permission |-> permission, pc |-> "read", existing |-> FALSE,
           stamp |-> 0]}
    /\ UNCHANGED <<pageVars, notPerm>>

\* getDoc answers (permissionData and, for a new record, createdAt are
\* stamped right after it), or it rejects and setPermission throws
SetPermissionRead(c, readOk) ==
    /\ c \in permCalls /\ c.pc = "read"
    /\ permCalls' =
         IF readOk
         THEN (permCalls \ {c}) \cup
                {[c EXCEPT !.pc = "write", !.stamp = now,
                           !.existing = c.permission.studentAccount
                                           \in DOMAIN permissions]}
         ELSE permCalls \ {c}
    /\ UNCHANGED <<pageVars, notPerm>>

\* a variant that always writes the whole document anew
SetPermissionWriteWhole(c, writeOk) ==
    /\ c \in permCalls /\ c.pc = "write"
    /\ permCalls' = permCalls \ {c}
    /\ permissions' =
         IF writeOk
         THEN PermissionsAfterWrite(permissions, c.permission, FALSE, c.stamp)
         ELSE permissions
    /\ UNCHANGED <<studentsDB, user, userPermission, permLoads, students,
                   pageCalls, notPerm>>

\* the write: updateDoc when getDoc found the document (it rejects when the
\* document is gone), setDoc otherwise
SetPermissionWrite(c, writeOk) ==
    /\ c \in permCalls /\ c.pc = "write"
    /\ permCalls' = permCalls \ {c}
    /\ permissions' =
         IF writeOk /\ (c.existing => c.permission.studentAccount \in DOMAIN permissions)
         THEN PermissionsAfterWrite(permissions, c.permission, c.existing, c.stamp)
         ELSE permissions
    /\ UNCHANGED <<studentsDB, user, userPermission, permLoads, students,
                   pageCalls, notPerm>>

PermissionNext ==
    \/ Tick
    \/ \E permission \in PermissionRequests : SetPermissionStart(permission)
    \/ \E c \in permCalls, ok \in BOOLEAN : SetPermissionRead(c, ok)
    \/ \E c \in permCalls, ok \in BOOLEAN : SetPermissionWrite(c, ok)
    \/ \E a \in PermAccounts : DeletePermission(a)

SpecPermission == Init /\ [][PermissionNext]_vars

\* the step is the applied write of the setPermission call c
PermissionWrittenBy(c) ==
    /\ c.pc = "write"
    /\ c \notin permCalls'
    /\ permissions' # permissions

C18_RoleAgreesWithFlags ==
    \A a \in DOMAIN permissions :
        /\ permissions[a].isGroupLeader <=> (permissions[a].role = "group_leader")
        /\ permissions[a].canEditGrades <=> (permissions[a].role = "teacher")
        /\ (permissions[a].role = "teacher") => permissions[a].canMarkAttendance

\* a teacher's record written by one call while another call, which found
\* the record before, is about to write a group leader's over it
C18_Witness ==
    /\ "101" \in DOMAIN permissions
    /\ permissions["101"].role = "teacher"
    /\ permissions["101"].updatedAt > permissions["101"].createdAt
    /\ \E c \in permCalls :
          /\ c.pc = "write" /\ c.existing
          /\ c.permission.studentAccount = "101"
          /\ c.permission.role = "group_leader"
          /\ c.stamp < permissions["101"].updatedAt

(***************************************************************************)
(* Login by account                                                        *)
(*                                                                         *)
(* signInWithAccount reads the account's 'students' document and returns   *)
(* an AuthUser, or throws; loginWithAccount of the auth context passes the *)
(* AuthUser to setUser.  The method takes the account and nothing else and *)
(* reads no setting.                                                       *)
(***************************************************************************)
\* "999": an account without a 'students' document
LoginAccounts == {"101", "999"}

\* the getDoc of signInWithAccount: answered, rejected with a 'permission'
\* error, rejected with another error
ReadOutcomes == {"ok", "permission", "error"}

\* studentDoc.exists()
StudentDocExists(account) == account \in DOMAIN studentsDB

\* signInWithAccount(account): the AuthUser returned, Null where it throws
SignInWithAccount(account, outcome) ==
    CASE outcome = "ok" ->
            IF ~StudentDocExists(account)
               THEN [uid |-> account, role |-> "student",
                     studentAccount |-> account]
               ELSE [uid |-> account, role |-> "student",
                     studentAccount |-> account]
      [] outcome = "permission" ->
            [uid |-> account, role |-> "student", studentAccount |-> account]
      [] OTHER -> Null

\* loginWithAccount(account) of the auth context; the [user] effect of the
\* page starts loadUserPermission for the new user
LoginWithAccount(account, outcome) ==
    /\ user = Null
    /\ LET authUser == SignInWithAccount(account, outcome) IN
          IF authUser = Null
             THEN UNCHANGED <<user, permLoads>>
             ELSE /\ user' = authUser
                  /\ permLoads' = permLoads \cup {account}
    /\ UNCHANGED <<studentsDB, permissions, userPermission, students,
                   pageCalls, notPage>>

\* setGroupLeader(studentAccount, createdBy = 'admin')
SetGroupLeader(studentAccount) ==
    SetPermission(GroupLeaderPermission(studentAccount))

LoginNext ==
    \/ \E a \in Accounts, g \in GroupValues : UpdateStudent(a, g)
    \/ \E a \in LoginAccounts : SetGroupLeader(a)
    \/ \E a \in LoginAccounts : RevokeAttendancePermission(a)
    \/ \E a \in LoginAccounts : DeletePermission(a)
    \/ \E a \in LoginAccounts, o \in ReadOutcomes : LoginWithAccount(a, o)
    \/ Logout
    \/ \E a \in LoginAccounts, ok \in BOOLEAN : LoadUserPermission(a, ok)

SpecLogin == Init /\ [][LoginNext]_vars

\* a step in which the account login of a establishes the subject
AccountLoginOf(a) == user = Null /\ user' # Null /\ user'.uid = a

(***************************************************************************)
(* C19: login by bare account identifier for an account found in the       *)
(* roster yields a subject with role student, upgraded to group_leader     *)
(* exactly when the Permission record of that account has isGroupLeader =  *)
(* true.                                                                   *)
(***************************************************************************)
C19_AccountLoginRole ==
    [][\A a \in LoginAccounts :
          (AccountLoginOf(a) /\ StudentDocExists(a)) =>
              user'.role = IF /\ a \in DOMAIN permissions
                              /\ permissions[a].isGroupLeader
                              THEN "group_leader" ELSE "student"]_vars

(***************************************************************************)
(* C20: login with an account that is not in the roster has two modes:     *)
(* under strict roster lookup it fails and no subject is established;      *)
(* under legacy/demo mode it yields a provisional subject with role        *)
(* student and studentAccount equal to the entered account.  The login     *)
(* takes no mode, so what it does is what it does under either.            *)
(***************************************************************************)
C20_UnknownAccountByMode ==
    [][\A strictRosterLookup \in BOOLEAN : \A a \in LoginAccounts :
          (AccountLoginOf(a) /\ ~StudentDocExists(a)) =>
              /\ ~strictRosterLookup
              /\ user'.role = "student"
              /\ user'.studentAccount = a]_vars

(***************************************************************************)
(* Read-side queries                                                       *)
(*                                                                         *)
(* A query leaves in 'returned' what its caller gets: the value returned,  *)
(* or the fact that it threw.  Lists are kept as sets (no claim reads      *)
(* their order).  A rate is a percentage; with at most two records a day   *)
(* it is a whole number.                                                   *)
(***************************************************************************)
\* filter.date / filter.studentAccount; "" is a filter not given
Filters == [date : Dates \cup {""}, studentAccount : Accounts \cup {""}]

\* what the caller of a query gets
Returns(op, readFailed, value) ==
    [op |-> op, readFailed |-> readFailed, thrown |-> FALSE, value |-> value]
Throws(op) ==
    [op |-> op, readFailed |-> TRUE, thrown |-> TRUE, value |-> Null]

\* the documents of the collection with their ids
AttendanceDocs ==
    {MergeFields(attendance[d], [id |-> d]) : d \in DOMAIN attendance}

\* getAttendanceRecords(filter)
GetAttendanceRecords(filter, readOk) ==
    /\ returned' =
         IF readOk
         THEN Returns("getAttendanceRecords", FALSE,
                 {r \in AttendanceDocs :
                     /\ filter.date # "" => r.date = filter.date
                     /\ filter.studentAccount # "" =>
                            r.studentAccount = filter.studentAccount})
         ELSE Returns("getAttendanceRecords", TRUE, {})
    /\ UNCHANGED notQuery

\* getAttendanceDates(): the ordered query, on its failure the plain one
GetAttendanceDates(orderedOk, plainOk) ==
    /\ returned' =
         IF orderedOk \/ plainOk
         THEN Returns("getAttendanceDates", FALSE,
                      {attendance[d].date : d \in DOMAIN attendance})
         ELSE Returns("getAttendanceDates", TRUE, {})
    /\ UNCHANGED notQuery

\* getAttendanceStats over a range that holds every date of the model
AttendanceStats ==
    LET records == AttendanceDocs
        DayRecords(date) == {r \in records : r.date = date}
        Rate(rs) == IF Cardinality(rs) > 0
                       THEN (100 * Cardinality({r \in rs : r.isPresent}))
                                \div Cardinality(rs)
                       ELSE 0
        dateStats ==
            {[date |-> date,
              presentCount |-> Cardinality({r \in DayRecords(date) : r.isPresent}),
              totalCount |-> Cardinality(DayRecords(date)),
              rate |-> Rate(DayRecords(date))] :
                date \in {r.date : r \in records}}
    IN [totalClasses |-> Cardinality(dateStats),
        totalStudents |-> Cardinality({r.studentAccount : r \in records}),
        attendanceRate |-> Rate(records),
        dateStats |-> dateStats]

\* getAttendanceStats(startDate, endDate)
GetAttendanceStats(readOk) ==
    /\ returned' = IF readOk
                      THEN Returns("getAttendanceStats", FALSE, AttendanceStats)
                      ELSE Throws("getAttendanceStats")
    /\ UNCHANGED notQuery

RECURSIVE SumOfGrades(_, _)
\* values.reduce((sum, val) => sum + val, 0), over the records that hold one
SumOfGrades(holders, gradeType) ==
    IF holders = {} THEN 0
    ELSE LET a == CHOOSE x \in holders : TRUE IN
         grades[a][gradeType] + SumOfGrades(holders \ {a}, gradeType)

\* the result of getGradeStats(gradeType); average in hundredths
GradeStats(gradeType) ==
    LET holders == {a \in DOMAIN grades : gradeType \in DOMAIN grades[a]}
        values == {grades[a][gradeType] : a \in holders}
        Among(lo, hi) ==
            Cardinality({a \in holders : /\ 10 * grades[a][gradeType] >= lo
                                         /\ 10 * grades[a][gradeType] < hi})
    IN IF holders = {}
       THEN [average |-> 0, highest |-> 0, lowest |-> 0, count |-> 0,
             distribution |-> Null]
       ELSE [average |-> RoundDiv(100 * SumOfGrades(holders, gradeType),
                                  Cardinality(holders)),
             highest |-> CHOOSE v \in values : \A w \in values : w <= v,
             lowest |-> CHOOSE v \in values : \A w \in values : v <= w,
             count |-> Cardinality(holders),
             distribution |->
                 [A |-> Among(85, 1000), B |-> Among(70, 85),
                  C |-> Among(55, 70), D |-> Among(40, 55),
                  F |-> Among(-1000, 40)]]

\* getGradeStats(gradeType): getAllGrades throws when its read fails
GetGradeStats(gradeType, readOk) ==
    /\ returned' = IF readOk
                      THEN Returns("getGradeStats", FALSE, GradeStats(gradeType))
                      ELSE Throws("getGradeStats")
    /\ UNCHANGED notQuery

\* the services are idle: no call of theirs is in flight
Idle == calls = {} /\ gcalls = {}

QueriesNext ==
    \/ Idle /\ \E a \in Accounts, d \in Dates, p \in BOOLEAN, u \in Actors :
                  MarkAttendanceStart(a, d, p, u)
    \/ \E c \in calls, ok \in BOOLEAN : MarkAttendanceRead(c, ok)
    \/ \E c \in calls, ok \in BOOLEAN : MarkAttendanceWrite(c, ok)
    \/ \E a \in Accounts, d \in Dates, ok \in BOOLEAN : DeleteAttendance(a, d, ok)
    \/ Idle /\ \E r \in FullGradeRecords : UpdateFullGradeStart(r)
    \/ \E c \in gcalls, ok \in BOOLEAN : UpdateFullGradeWrite(c, ok)
    \/ \E c \in gcalls : GradeReturn(c)
    \/ \E a \in GradeAccounts : DeleteGrade(a)
    \/ Idle /\ \E f \in Filters, ok \in BOOLEAN : GetAttendanceRecords(f, ok)
    \/ Idle /\ \E ok1, ok2 \in BOOLEAN : GetAttendanceDates(ok1, ok2)
    \/ Idle /\ \E ok \in BOOLEAN : GetAttendanceStats(ok)
    \/ Idle /\ \E t \in GradeTypes, ok \in BOOLEAN : GetGradeStats(t, ok)

SpecQueries == Init /\ [][QueriesNext]_vars

\* the empty or zero-valued result of a query
EmptyResult(op) ==
    CASE op = "getAttendanceStats" ->
            [totalClasses |-> 0, totalStudents |-> 0, attendanceRate |-> 0,
             dateStats |-> {}]
      [] op = "getGradeStats" ->
            [average |-> 0, highest |-> 0, lowest |-> 0, count |-> 0,
             distribution |-> Null]
      [] OTHER -> {}

(***************************************************************************)
(* C21: the read-side aggregate queries fail soft: when the backing store  *)
(* read fails, getAttendanceRecords, getAttendanceDates,                   *)
(* getAttendanceStats and getGradeStats each return an empty or            *)
(* zero-valued result and never propagate an error to the caller.          *)
(***************************************************************************)
C21_QueriesFailSoft ==
    (returned # Null /\ returned.readFailed) =>
        (~returned.thrown /\ returned.value = EmptyResult(returned.op))

(***************************************************************************)
(* The page of a teacher: the rows' controls with writes that fail.        *)
(***************************************************************************)
OptimisticNext ==
    \/ \E a \in Subjects : GrantAttendancePermission(a, "teacher")
    \/ \E a \in Subjects : Login(a)
    \/ \E a \in Subjects, ok \in BOOLEAN : LoadUserPermission(a, ok)
    \/ \E ok, attendanceOk \in BOOLEAN : LoadData(ok, attendanceOk)
    \/ \E s \in students : HandleAttendanceChange(s.account, Checked(s.account))
    \/ \E s \in students : \E n \in ButtonCounts(s.account) :
          HandleParticipationChange(s.account, n)
    \/ \E c \in pageCalls, ok \in BOOLEAN : PageCallSettled(c, ok)

SpecOptimistic == Init /\ [][OptimisticNext]_vars

(***************************************************************************)
(* C22: optimistic update with rollback.  When the write issued by         *)
(* handleAttendanceChange or handleParticipationChange fails, the value    *)
(* the page holds for that student (attendance flag, participation count)  *)
(* is restored to the value it had before the attempted change.            *)
(***************************************************************************)
\* the row of c's student shows again what it showed before c
ShowsBefore(c) ==
    IF c.op = "markAttendance"
       THEN ShownPresent(attendanceLookup, c.studentAccount) = c.before
       ELSE ShownCount(participationLookup, c.studentAccount) = c.before

C22_RevertRestores ==
    [][\A c \in pageCalls : PageCallSettled(c, FALSE) => ShowsBefore(c)']_vars

(***************************************************************************)
(* calculateTotal as a function of the record handed to it                 *)
(***************************************************************************)
TotalCategories == {"midterm", "final", "participation"}
TotalValues     == {0, 7, 8, 10}

\* the records handed to calculateTotal: any of the categories, each with
\* a score
TotalRecords ==
    UNION {[present -> TotalValues] : present \in SUBSET TotalCategories}

\* calculateTotal(gradeRecord) is called and returns
CalculateTotalReturns(gradeRecord) ==
    /\ returned' = [op |-> "calculateTotal", record |-> gradeRecord,
                    value |-> CalculateTotal(gradeRecord)]
    /\ UNCHANGED notQuery

TotalNext == \E r \in TotalRecords : CalculateTotalReturns(r)

SpecTotal == Init /\ [][TotalNext]_vars

\* the weights as stated, in hundredths
StatedWeights ==
    [midterm |-> 30, final |-> 40, assignment1 |-> 10, assignment2 |-> 10,
     assignment3 |-> 5, project |-> 15, participation |-> 5]

RECURSIVE SumOf(_, _)
\* the sum of term[k] over the keys
SumOf(keys, term) ==
    IF keys = {} THEN 0
    ELSE LET k == CHOOSE x \in keys : TRUE IN term[k] + SumOf(keys \ {k}, term)

\* v, in hundredths, is n / d rounded to 2 decimals
IsRounded(v, n, d) ==
    LET off == v * d - 100 * n IN
    2 * (IF off < 0 THEN -off ELSE off) <= d

(***************************************************************************)
(* C23: weightedTotal sums value*weight over the categories present in the *)
(* record (weights midterm .30, final .40, assignment1 .10, assignment2    *)
(* .10, assignment3 .05, project .15, participation .05), divides by the   *)
(* sum of the weights of the categories present, rounds to 2 decimals, and *)
(* is 0 when no category is present; midterm = 8 and final = 7 alone give  *)
(* 7.43.                                                                   *)
(***************************************************************************)
C23_WeightedTotal ==
    (returned # Null /\ returned.op = "calculateTotal") =>
        LET record == returned.record
            present == {k \in DOMAIN StatedWeights : k \in DOMAIN record}
            sum == SumOf(present, [k \in present |-> record[k] * StatedWeights[k]])
            weight == SumOf(present, [k \in present |-> StatedWeights[k]])
        IN /\ present = {} => returned.value = 0
           /\ present # {} => IsRounded(returned.value, sum, weight)
           /\ record = [midterm |-> 8, final |-> 7] => returned.value = 743

\* a record without the final score and with a total that is not a whole
\* number of hundredths before rounding
C23_Witness ==
    /\ returned # Null /\ returned.op = "calculateTotal"
    /\ returned.record = [midterm |-> 8, participation |-> 10]
    /\ returned.value = 829

(***************************************************************************)
(* getParticipationScore as a function of the count                        *)
(***************************************************************************)
MaxParticipation == 60    \* the counts handed over are -60 .. 60

\* a variant whose last test is count === 4
GetParticipationScoreOfFourOnly(count) ==
    IF count <= 0 THEN 0
    ELSE IF count = 1 THEN 3
    ELSE IF count = 2 THEN 6
    ELSE IF count = 3 THEN 9
    ELSE IF count = 4 THEN 10
    ELSE 0

\* getParticipationScore(count)
GetParticipationScore(count) ==
    IF count <= 0 THEN 0
    ELSE IF count = 1 THEN 3
    ELSE IF count = 2 THEN 6
    ELSE IF count = 3 THEN 9
    ELSE IF count >= 4 THEN 10
    ELSE 0

\* getParticipationScore(count) is called and returns
GetParticipationScoreReturns(count) ==
    /\ returned' = [op |-> "getParticipationScore", count |-> count,
                    value |-> GetParticipationScore(count)]
    /\ UNCHANGED notQuery

ScoreNext ==
    \E count \in -MaxParticipation..MaxParticipation :
        GetParticipationScoreReturns(count)

SpecScore == Init /\ [][ScoreNext]_vars

(***************************************************************************)
(* C24: participationScore maps count 0 to 0, 1 to 3, 2 to 6, 3 to 9 and   *)
(* every count >= 4 to 10, maps every negative count to 0, and is          *)
(* monotonically non-decreasing over all integer counts.                   *)
(***************************************************************************)
C24_ParticipationScore ==
    (returned # Null /\ returned.op = "getParticipationScore") =>
        LET count == returned.count
            score == returned.value
        IN /\ count = 0 => score = 0
           /\ count = 1 => score = 3
           /\ count = 2 => score = 6
           /\ count = 3 => score = 9
           /\ count >= 4 => score = 10
           /\ count < 0 => score = 0
           /\ \A lower \in -MaxParticipation..count :
                 GetParticipationScore(lower) <= score

\* a count above 4
C24_Witness ==
    /\ returned # Null /\ returned.op = "getParticipationScore"
    /\ returned.count = 5 /\ returned.value = 10

(***************************************************************************)
(* C25: markAttendance on an (account, date) that already has a record     *)
(* changes only isPresent, updatedAt and updatedBy: it never changes the   *)
(* record's participationCount or createdAt, also when it runs             *)
(* concurrently with updateParticipation on the same key and when its      *)
(* existence-check read fails or returns nothing.                          *)
(***************************************************************************)
C25_MarkKeepsCountAndCreation ==
    [][\A c \in calls :
          LET docId == DocId(c.studentAccount, c.date) IN
          (/\ c.op = "mark"
           /\ docId \in DOMAIN attendance
           /\ MarkAttendanceWrite(c, TRUE)) =>
              \A field \in {"participationCount", "createdAt"} :
                  field \in DOMAIN attendance[docId] =>
                      /\ field \in DOMAIN attendance'[docId]
                      /\ attendance'[docId][field] = attendance[docId][field]]_vars

(***************************************************************************)
(* C26: no lost update across categories.  When two updateGrade calls for  *)
(* the same student and different categories run concurrently (also when   *)
(* the student has no grade record yet) and both return successfully, the  *)
(* stored grade record contains both category values.  The category write  *)
(* of one call, applied while the other call has written and is still      *)
(* running, is the step that has to keep the other's value.                *)
(***************************************************************************)
\* c has written its category and has not returned yet
WrittenAndRunning(c) ==
    /\ c.op = "updateGrade"
    /\ c.pc \in {"recalcRead", "recalcWrite"}
    /\ c.studentAccount \in DOMAIN grades
    /\ c.gradeType \in DOMAIN grades[c.studentAccount]
    /\ grades[c.studentAccount][c.gradeType] = c.value

C26_BothCategoriesStored ==
    [][\A c1, c2 \in gcalls :
          (/\ c1.studentAccount = c2.studentAccount
           /\ c1.gradeType # c2.gradeType
           /\ WrittenAndRunning(c1)
           /\ UpdateGradeWrite(c2, TRUE)
           /\ grades' # grades) =>
              /\ c1.gradeType \in DOMAIN grades'[c1.studentAccount]
              /\ grades'[c1.studentAccount][c1.gradeType] = c1.value
              /\ grades'[c2.studentAccount][c2.gradeType] = c2.value]_vars

(***************************************************************************)
(* The predicate the rows' controls are enabled by                         *)
(***************************************************************************)
\* canInteractWithStudent(targetStudentAccount)
CanInteractWithStudent(targetStudentAccount) ==
    IF user = Null \/ userPermission = Null
          \/ ~userPermission.canMarkAttendance
    THEN FALSE
    ELSE IF userPermission.role = "teacher" THEN TRUE
    ELSE IF /\ userPermission.role = "group_leader"
            /\ "studentAccount" \in DOMAIN user
            /\ FindStudent(user.studentAccount) # {}
            /\ FindStudent(targetStudentAccount) # {}
    THEN \E currentUserStudent \in FindStudent(user.studentAccount),
            targetStudent \in FindStudent(targetStudentAccount) :
            currentUserStudent.group = targetStudent.group
    ELSE FALSE

(***************************************************************************)
(* C27: the enforcing handlers and the UI predicate agree.  In every state *)
(* of (logged-in user, loaded userPermission, loaded roster) and for every *)
(* target account, handleAttendanceChange and handleParticipationChange    *)
(* issue a store write if and only if canInteractWithStudent(target) is    *)
(* true.                                                                   *)
(***************************************************************************)
C27_HandlersAgreeWithPredicate ==
    [][\A t \in Accounts :
          /\ WriteIssuedFor(t) => CanInteractWithStudent(t)
          /\ CanInteractWithStudent(t) => HandlerAllows(t)]_vars

(***************************************************************************)
(* C28: revocation takes effect immediately.  Once                         *)
(* revokeAttendancePermission(acc) or deletePermission(acc) has completed, *)
(* no later attendance or participation write is issued on behalf of a     *)
(* session logged in as acc, even if that session loaded its permission    *)
(* before the revocation.                                                  *)
(***************************************************************************)
\* the store holds what revokeAttendancePermission(acc) wrote over a grant,
\* or deletePermission(acc) has removed the record
RevocationCompleted(acc) ==
    \/ acc \notin DOMAIN permissions
    \/ /\ "createdBy" \notin DOMAIN permissions[acc]
       /\ ~permissions[acc].canMarkAttendance
       /\ permissions[acc].role = "student"

\* the session holds a permission it loaded while the account had one
LoadedBeforeRevocation ==
    /\ user # Null /\ "studentAccount" \in DOMAIN user
    /\ userPermission # Null /\ userPermission.canMarkAttendance
    /\ RevocationCompleted(user.studentAccount)

C28_RevocationImmediate ==
    [][LoadedBeforeRevocation => \A t \in Accounts : ~WriteIssuedFor(t)]_vars

(***************************************************************************)
(* C29: every record in the attendance store is complete.  After any       *)
(* sequence of markAttendance, updateParticipation and deleteAttendance    *)
(* calls, each stored record has a defined boolean isPresent, a defined    *)
(* createdAt and a participationCount that is an integer >= 0.             *)
(***************************************************************************)
C29_RecordsComplete ==
    \A d \in DOMAIN attendance :
        /\ "isPresent" \in DOMAIN attendance[d]
        /\ attendance[d].isPresent \in BOOLEAN
        /\ "createdAt" \in DOMAIN attendance[d]
        /\ "participationCount" \in DOMAIN attendance[d]
        /\ attendance[d].participationCount \in Nat

(***************************************************************************)
(* C30: processExcelUpload always returns a result envelope and never      *)
(* throws; in every envelope totalCount equals the number of input rows,   *)
(* and whenever no storage failure occurred each input row is counted      *)
(* exactly once, so errors.length + processedCount = totalCount and        *)
(* success holds exactly when errors is empty.                             *)
(***************************************************************************)
\* no updateGrade of the upload has been rejected
NoStorageFailure == \A c \in BatchCalls : c.pc # "failed"

\* the rows (1-based, as the sheet numbers them after its header) that the
\* errors of an envelope name
ErrorRows(result) == {result.errors[k].row : k \in 1..Len(result.errors)}

C30_EnvelopeCounts ==
    upload # Null =>
       /\ upload.pc \in {"commit", "returned"}
       /\ UploadReturned =>
             /\ DOMAIN upload.result =
                   {"success", "message", "errors", "processedCount", "totalCount"}
             /\ upload.result.totalCount = Len(upload.excelData)
             /\ NoStorageFailure =>
                   /\ Len(upload.result.errors) + upload.result.processedCount
                         = upload.result.totalCount
                   /\ upload.result.success <=> (upload.result.errors = <<>>)
                   /\ Cardinality(ErrorRows(upload.result))
                         = Len(upload.result.errors)
                   /\ ErrorRows(upload.result)
                         = {i + 1 : i \in RejectedRows(upload)}

\* a full sheet with one rejected row has been answered, over a store that
\* holds records
C30_Witness ==
    /\ UploadReturned /\ NoStorageFailure
    /\ upload.result.totalCount = MaxRows
    /\ Len(upload.result.errors) = 1
    /\ upload.result.processedCount = MaxRows - 1
    /\ ~upload.result.success
    /\ grades # NoDocs

====
